---- MODULE Spec2Model ----
(***************************************************************************)
(* Smart tab switching of the Tabwise side panel (src/sidepanel.js).       *)
(*                                                                         *)
(* The model has the browser's tabs and windows, the persisted bindings    *)
(* (lastBoundTabId / lastBoundAt of every favorite and workspace item),    *)
(* the panel's in-memory copy `state`, the item objects captured by the    *)
(* rendered buttons, and one process per running async handler: a click    *)
(* handler (handleClickFavorite / handleOpenWorkspaceItem) and a           *)
(* tabs.onRemoved listener per closed tab.  A handler advances one host    *)
(* call (one await) per step, so handlers interleave at their awaits as    *)
(* they do on the JavaScript event loop.                                   *)
(***************************************************************************)
EXTENDS Integers, Sequences, FiniteSets, TLC

\* ------------------------------------------------------------------ bounds
MaxEvents == 2    \* user events in a run: tabs opened, tabs closed, clicks

\* --------------------------------------------------------------- constants
NoTab == 0            \* lastBoundTabId: null
NoTime == 0           \* lastBoundAt: null
CurrentWindow == 1    \* the window the side panel lives in
OtherWindow == 2

Windows == {CurrentWindow, OtherWindow}
InitialTabs == {1, 2}                  \* tabs that may be open when the run begins
MaxTabs == Cardinality(InitialTabs) + MaxEvents
TabIds == 1..MaxTabs                   \* tab ids are never used twice
AllClicks == {1, 2}                    \* click handler slots
Clicks == {1}                          \* the slots Spec uses

\* -------------------------------------------------------------------- URLs
\* A URL string is modelled by the parts the parser separates.  The scheme
\* "none" stands for a string the URL constructor rejects (no scheme).
Schemes == {"https", "ext", "none"}
Hosts == {"a", "A", "b"}
Paths == {"/", "/x"}
UrlStrings == [scheme : Schemes, host : Hosts, path : Paths]

Url(s, h, p) == [scheme |-> s, host |-> h, path |-> p]

\* Special schemes of the URL standard (http, https, ws, wss, ftp, file): the
\* host parser lowercases their host.  Any other scheme keeps the host as an
\* opaque host, spelled as written.
IsSpecial(s) == s = "https"

ToLower(h) == IF h = "A" THEN "a" ELSE h

\* new URL(s): throws on a string with no scheme, else the parsed record.
ParseUrl(s) ==
  IF s.scheme = "none"
    THEN [ok |-> FALSE, hostname |-> "", pathname |-> ""]
    ELSE [ok |-> TRUE,
          hostname |-> IF IsSpecial(s.scheme) THEN ToLower(s.host) ELSE s.host,
          pathname |-> s.path]

\* The comparison of matchesUrl's return statement.
SameHostname(a, b) == a.hostname = b.hostname

\* matchesUrl(tabUrl, targetUrl): the try block, with catch { return false }.
\* threw is whether an exception leaves the function.
matchesUrlCall(tabUrl, targetUrl) ==
  LET a == ParseUrl(tabUrl)
      b == ParseUrl(targetUrl)
  IN  IF ~a.ok \/ ~b.ok
        THEN [value |-> FALSE, threw |-> FALSE]
        ELSE [value |-> SameHostname(a, b), threw |-> FALSE]

matchesUrl(tabUrl, targetUrl) == matchesUrlCall(tabUrl, targetUrl).value

\* ------------------------------------------------------------------- items
Favs == {"f1"}
WsItems == {"w1"}
Items == Favs \cup WsItems
FavOrder == <<"f1">>     \* state.favorites, in array order
WsOrder == <<"w1">>      \* the items of state.workspaces, in iteration order

ItemUrl(i) == Url("https", "a", "/")

\* URLs of the tabs the user opens by hand.
UserUrls == {Url("https", "a", "/x"), Url("https", "b", "/")}

OpenModes == {"smart-switch", "same-tab", "new-tab"}

Binding(tab, at) == [lastBoundTabId |-> tab, lastBoundAt |-> at]
Unbound == Binding(NoTab, NoTime)
AllUnbound == [i \in Items |-> Unbound]

VARIABLES
  open,        \* ids of the tabs that exist
  tabUrl,      \* tab id -> URL of the tab
  tabWin,      \* tab id -> window of the tab
  active,      \* the active tab of the panel's window (NoTab: none)
  nextId,      \* the id the browser gives the next tab
  stored,      \* persisted state: item -> binding pair
  loaded,      \* the panel's `state` is no longer null
  state,       \* the panel's in-memory `state`: item -> binding pair
  view,        \* the item objects held by the rendered buttons
  now,         \* Date.now()
  click,       \* click handler slot -> its position and locals
  rem,         \* closed tab id -> its onRemoved listener's position and locals
  events,      \* user events so far
  mTab, mTarget, mResult,  \* arguments and result of a matchesUrl call
  navigated,   \* tab id -> the tab has loaded another URL since it opened
  bgInit,      \* how far the background's initializeServices has come
  bgState,     \* the background's `state` is not null
  tabCache,    \* the background's Tab Cache: tab id -> snapshot
  lastGiven,   \* tab id -> the snapshot the last add or update call gave
  cacheOk,     \* no Tab Cache call has raised an error
  got,         \* the last Tab Cache lookup and its result
  msg,         \* the 'favorite:switch' request in the background and its responses
  ctab,        \* Clear all: tab id -> the tab as the browser has it
  clr,         \* Clear all: the handler's position and locals
  rateLimitMap, \* AI worker: ip -> { count, timestamp }
  wnow,       \* AI worker: Date.now()
  admitted,   \* AI worker: ip -> instant -> requests the limiter let through
  starts,     \* AI worker: ip -> the instants at which a window of the ip began
  resp,       \* AI worker: the last request and its response
  gtabs,      \* tab grouping: the tabs given to groupTabsByDomain
  grouped,    \* tab grouping: what groupTabsByDomain returned
  hopen,      \* background start: ids of the tabs open at the host
  hused,      \* background start: ids the host has given to a tab
  hq,         \* background start: tab events emitted and not yet handled
  hsnap,      \* background start: the answer to chrome.tabs.query on its way
  eqv,        \* the two click handlers run alone on one input, and what each did
  ports,      \* toggle: the windows whose side panel has its port connected
  sidePanelPort, \* toggle: the background's sidePanelPort (NoPort: null)
  closing,    \* toggle: the panels that were sent close-panel and have not closed yet
  toolbar,    \* toggle: the last click on the toolbar action and what it did
  coach,      \* coach: the state stored under 'postOnboardingCoach'
  flow,       \* coach: panel -> the overlay of its running flow and the flow's coachState object
  timer,      \* coach: panel -> a setTimeout restart of the flow is pending
  cev         \* coach: the event handler that has read the stored state and not yet acted

tabVars == <<open, tabUrl, tabWin, active, nextId>>
panelVars == <<stored, loaded, state, view, now>>
urlVars == <<mTab, mTarget, mResult>>
bgVars == <<bgInit, bgState, tabCache, lastGiven, cacheOk, got, msg>>
clearVars == <<ctab, clr>>
workerVars == <<rateLimitMap, wnow, admitted, starts, resp>>
groupVars == <<gtabs, grouped>>
hostVars == <<hopen, hused, hq, hsnap>>
equivVars == <<eqv>>
portVars == <<ports, sidePanelPort, closing, toolbar>>
coachVars == <<coach, flow, timer, cev>>
auxVars == <<clearVars, workerVars, groupVars, hostVars, equivVars, portVars, coachVars>>
\* What the side panel's handlers never touch.
otherVars == <<urlVars, navigated, bgVars, auxVars>>
vars == <<open, tabUrl, tabWin, active, nextId,
          stored, loaded, state, view, now, click, rem, events,
          mTab, mTarget, mResult, navigated,
          bgInit, bgState, tabCache, lastGiven, cacheOk, got, msg,
          ctab, clr,
          rateLimitMap, wnow, admitted, starts, resp,
          gtabs, grouped,
          hopen, hused, hq, hsnap,
          eqv,
          ports, sidePanelPort, closing, toolbar,
          coach, flow, timer, cev>>

\* ------------------------------------------------------------ handler data
IdleClick ==
  [pc |-> "idle", item |-> "f1", shift |-> FALSE, mode |-> "smart-switch",
   bound |-> NoTab,      \* fav.lastBoundTabId as the handler read it
   tab |-> NoTab,        \* boundTab / matchingTab / newTab
   win |-> CurrentWindow,\* boundTab.windowId
   wtab |-> NoTab,       \* tabId argument of the binding update in progress
   wat |-> NoTime,       \* its lastBoundAt
   snap |-> AllUnbound,  \* the stored state read by the update in progress
   \* history, read by the properties only
   solo |-> FALSE,       \* no other handler or tab event since the click began
   pre |-> Unbound,      \* the item's stored binding when the click began
   lost |-> FALSE,       \* a tab the item was bound to has closed, and its
                         \* onRemoved listener has returned
   writes |-> 0,         \* binding writes made by the handler
   readBinding |-> FALSE,\* the handler read the item's binding
   readTabs |-> FALSE,   \* the handler asked the browser about open tabs
   stale |-> FALSE,      \* tabs.get found the bound tab gone
   cleared |-> FALSE,    \* the handler wrote a null binding
   searched |-> FALSE,   \* the fallback tabs.query ran
   failed |-> FALSE,     \* the catch block ran
   made |-> 0,           \* tabs created by the handler
   outcome |-> "none"]

IdleRem ==
  [pc |-> "none", phase |-> "fav", arr |-> AllUnbound, k |-> 0,
   item |-> "f1", snap |-> AllUnbound,
   \* history, read by the properties only
   skipped |-> FALSE,    \* the listener returned at if (!state)
   was |-> {}]           \* the items whose stored binding named the tab when it closed

InFlight(c) == click[c].pc \notin {"idle", "done"}
RemRunning(t) == rem[t].pc \notin {"none", "done"}

\* No handler is running and no tab-removed event waits to be handled.
Quiet == (\A c \in AllClicks : ~InFlight(c)) /\ (\A t \in TabIds : ~RemRunning(t))

\* The click slots after a step of slot c (0: a step of no click): every other
\* running click has been interleaved with, and finished handlers are gone.
Others(cl, c) ==
  [d \in AllClicks |->
     IF d = c THEN cl[d]
     ELSE IF cl[d].pc = "done" THEN IdleClick
     ELSE IF cl[d].pc = "idle" THEN cl[d]
     ELSE [cl[d] EXCEPT !.solo = FALSE]]

\* Date.now() at a later call: every click reads the clock at most once.
Tick == now + 1

WindowExists(w) == w = CurrentWindow \/ \E t \in open : tabWin[t] = w

TypeOK ==
  /\ open \subseteq TabIds
  /\ nextId \in 1..(MaxTabs + 1)
  /\ loaded \in BOOLEAN
  /\ now \in 1..(MaxEvents + 2)
  /\ \A i \in Items : stored[i].lastBoundTabId \in {NoTab} \cup TabIds

\* The tabs the Tab Cache is told about, and their snapshots.
CacheIds == InitialTabs
CacheTabs == [id : CacheIds, url : UserUrls, active : BOOLEAN]
\* get's answer for an id the cache does not hold.
NotFound == [id |-> NoTab, url |-> Url("none", "a", "/"), active |-> FALSE]
\* new TabCache()
TabCacheNew == [id \in CacheIds |-> NotFound]
NoGet == [id |-> NoTab, result |-> NotFound]
IdleMsg ==
  [pc |-> "none",
   payload |-> FALSE,    \* message.payload is an object
   known |-> FALSE,      \* payload.favoriteId names a favorite of the state
   responses |-> 0,      \* calls of sendResponse
   ok |-> FALSE,         \* the `ok` of the last response
   why |-> "none",       \* where the listener's run of the request ended
   threw |-> FALSE]      \* the listener threw

\* The background before initializeServices.
BgIdle ==
  /\ bgInit = "none"
  /\ bgState = FALSE
  /\ tabCache = TabCacheNew
  /\ lastGiven = TabCacheNew
  /\ cacheOk = TRUE
  /\ got = NoGet
  /\ msg = IdleMsg

\* ---------------------------------------------------------- Clear all: data
\* The tabs Clear all may meet, and the URLs they show.
ClearIds == {1, 2, 3}
MeetCall == [host |-> "meet.google.com", path |-> "/abc-defg-hij"]
MeetLanding == [host |-> "meet.google.com", path |-> "/"]
PlainPage == [host |-> "b", path |-> "/"]
ClearUrls == {MeetCall, MeetLanding, PlainPage}
ClearTabs == [open : BOOLEAN, win : Windows, pinned : BOOLEAN, active : BOOLEAN,
              audible : BOOLEAN, url : ClearUrls]
NoList == [t \in ClearIds |-> FALSE]
IdleClear ==
  [pc |-> "idle",
   list |-> NoList,      \* allTabs: the ids chrome.tabs.query answered with
   toClose |-> {},       \* tabsToClose
   closed |-> {},        \* the tabs chrome.tabs.remove closed
   wrong |-> {}]         \* of those, the tabs that were protected when they closed
RestTabs == [t \in ClearIds |-> [open |-> TRUE, win |-> CurrentWindow, pinned |-> FALSE,
                                   active |-> t = 1, audible |-> FALSE, url |-> PlainPage]]

\* --------------------------------------------------------- AI worker: data
RATE_LIMIT == 10
RATE_WINDOW == 60000
\* The clients, and the instants (ms) at which requests arrive.
ClientIps == {"ip1", "ip2"}
Instants == {0, 59999, 60001}
\* rateLimitMap has no record for an ip.
NoRecord == [count |-> 0, timestamp |-> 0]
IdleResponse ==
  [status |-> 0,
   counted |-> FALSE,    \* the request reached the rate limiter
   full |-> FALSE,       \* the ip's window held RATE_LIMIT admitted requests when it arrived
   forwarded |-> FALSE,  \* the request was sent on to the AI service
   extension |-> FALSE,  \* the Origin header names an extension origin
   method |-> "none"]

\* Tab grouping: the URLs of the tabs handed to groupTabsByDomain, as the
\* parts of the URL that the grouping reads. A scheme of "" is a tab without
\* a URL; `app` is the first segment of the path.
MaxGrouped == 5
GroupUrl(s, h, a) == [scheme |-> s, host |-> h, app |-> a]
GroupUrls ==
  { GroupUrl("", "", ""),
    GroupUrl("chrome", "extensions", ""),
    GroupUrl("edge", "settings", ""),
    GroupUrl("https", "a.example", "inbox"),
    GroupUrl("https", "docs.google.com", "document"),
    GroupUrl("https", "docs.google.com", "spreadsheets"),
    GroupUrl("http", "constructor", "") }
NoGrouping == [done |-> FALSE, groups |-> <<>>, singles |-> <<>>]

\* No chrome.tabs.query of the background is under way.
NoSnap == [asked |-> FALSE, ids |-> {}]

\* What a click handler that ran alone did: the tab it focused, loaded or
\* created, and the clicked item's lastBoundTabId afterwards.
NoResult == [tab |-> NoTab, created |-> FALSE, lastBoundTabId |-> NoTab]
NoRun == [done |-> FALSE, shift |-> FALSE, mode |-> "smart-switch", bound |-> NoTab,
          fav |-> NoResult, ws |-> NoResult]

\* The toggle of the side panel: a browser window has at most one side panel,
\* and the panel's port is named by its window.
PanelWindows == {1, 2, 3}
NoPort == 0
NoToolbarClick == [win |-> NoPort, did |-> "none", wasOpen |-> FALSE]

\* The post-onboarding coach: the side panels that may run it, the stored
\* state getCoachState gives when nothing is stored, and a panel without flow.
CoachPanels == {1, 2}
CoachState(step, completed, skipped) ==
  [currentStep |-> step, completed |-> completed, skipped |-> skipped]
FreshCoach == CoachState(0, FALSE, FALSE)
NoFlow == [on |-> FALSE, screen |-> "none", st |-> FreshCoach]
NoCoachEvent == [pc |-> "idle", panel |-> 1, kind |-> "none", st |-> FreshCoach]

\* The parts of the extension beside tab switching, at rest.
ClearIdle == ctab = RestTabs /\ clr = IdleClear

WorkerIdle ==
  /\ rateLimitMap = [ip \in ClientIps |-> NoRecord]
  /\ wnow = 0
  /\ admitted = [ip \in ClientIps |-> [t \in Instants |-> 0]]
  /\ starts = [ip \in ClientIps |-> {}]
  /\ resp = IdleResponse

GroupIdle ==
  /\ gtabs = <<>>
  /\ grouped = NoGrouping

HostIdle ==
  /\ hopen = {}
  /\ hused = {}
  /\ hq = <<>>
  /\ hsnap = NoSnap

EquivIdle ==
  /\ eqv = NoRun

PortIdle ==
  /\ ports = {}
  /\ sidePanelPort = NoPort
  /\ closing = {}
  /\ toolbar = NoToolbarClick

CoachIdle ==
  /\ coach = FreshCoach
  /\ flow = [p \in CoachPanels |-> NoFlow]
  /\ timer = [p \in CoachPanels |-> FALSE]
  /\ cev = NoCoachEvent

\* The parts modelled after Clear all and the AI worker.
lateVars == <<groupVars, hostVars, equivVars, portVars, coachVars>>
LateIdle == GroupIdle /\ HostIdle /\ EquivIdle /\ PortIdle /\ CoachIdle

AuxIdle == ClearIdle /\ WorkerIdle /\ LateIdle

\* The panel opens on a browser with one or two tabs; storage holds the
\* bindings an earlier run of the panel left, each null or naming an open tab.
Init ==
  /\ open \in {{1}, InitialTabs}
  /\ tabUrl \in [TabIds -> UserUrls]
  /\ \A t \in TabIds \ open : tabUrl[t] = Url("https", "b", "/")
  /\ tabWin \in [TabIds -> Windows]
  /\ \A t \in (TabIds \ open) \cup {1} : tabWin[t] = CurrentWindow
  /\ active = 1
  /\ nextId = Cardinality(InitialTabs) + 1
  /\ events = 0
  /\ stored \in [Items -> {Unbound} \cup {Binding(t, 1) : t \in open \ {1}}]
  /\ loaded = FALSE
  /\ state = AllUnbound
  /\ view = AllUnbound
  /\ now = 2
  /\ click = [c \in AllClicks |-> IdleClick]
  /\ rem = [t \in TabIds |-> IdleRem]
  /\ navigated = [t \in TabIds |-> FALSE]
  /\ BgIdle
  /\ AuxIdle
  /\ mTab = Url("none", "a", "/")
  /\ mTarget = Url("none", "a", "/")
  /\ mResult = "none"

\* ----------------------------------------------------------------- browser
\* A user event: the run has room for MaxEvents of them.
UserEvent == events < MaxEvents /\ events' = events + 1

\* A variant of CreateTab that loads the URL in the active tab instead, as
\* openUrl does in 'same-tab' mode.
NavigateActive(u, w) ==
  /\ tabUrl' = [tabUrl EXCEPT ![active] = u]
  /\ UNCHANGED <<open, tabWin, active, nextId>>

\* chrome.tabs.create({url}) and the user's new tab: a tab with a fresh id,
\* active in its window.
CreateTab(u, w) ==
  /\ open' = open \cup {nextId}
  /\ tabUrl' = [tabUrl EXCEPT ![nextId] = u]
  /\ tabWin' = [tabWin EXCEPT ![nextId] = w]
  /\ active' = IF w = CurrentWindow THEN nextId ELSE active
  /\ nextId' = nextId + 1

\* chrome.tabs.update(id, {active: true}) on an existing tab.
ActivateTab(t) ==
  /\ active' = IF tabWin[t] = CurrentWindow THEN t ELSE active
  /\ UNCHANGED <<open, tabUrl, tabWin, nextId>>

UserOpenTab(u, w) ==
  /\ UserEvent
  /\ CreateTab(u, w)
  /\ click' = Others(click, 0)
  /\ UNCHANGED <<panelVars, rem, otherVars>>

\* The user closes tab t; the browser emits tabs.onRemoved(t).
UserCloseTab(t) ==
  /\ t \in open
  /\ UserEvent
  /\ \E u \in open : u # t /\ tabWin[u] = CurrentWindow
  /\ open' = open \ {t}
  /\ IF active # t THEN active' = active
     ELSE \E a \in open \ {t} : tabWin[a] = CurrentWindow /\ active' = a
  /\ rem' = [rem EXCEPT ![t] = [IdleRem EXCEPT !.pc = "pending",
         !.was = {i \in Items : stored[i].lastBoundTabId = t}]]
  /\ tabUrl' = [tabUrl EXCEPT ![t] = Url("https", "b", "/")]
  /\ tabWin' = [tabWin EXCEPT ![t] = CurrentWindow]
  /\ click' = Others(click, 0)
  /\ UNCHANGED <<nextId, panelVars, otherVars>>

\* ------------------------------------------------------------------- panel
\* renderFavorites(): the favorite buttons capture the favorites of `state`.
RenderFavorites(v, s) == [i \in Items |-> IF i \in Favs THEN s[i] ELSE v[i]]
\* renderWorkspaces(): the item rows capture the workspace items of `state`.
RenderWorkspaces(v, s) == [i \in Items |-> IF i \in WsItems THEN s[i] ELSE v[i]]
\* renderUI(): both.
RenderAll(v, s) == RenderWorkspaces(RenderFavorites(v, s), s)

\* init(): state = await Storage.getState(); ...; renderUI().
InitPanel ==
  /\ ~loaded
  /\ loaded' = TRUE
  /\ state' = stored
  /\ view' = RenderAll(view, stored)
  /\ click' = Others(click, 0)
  /\ UNCHANGED <<tabVars, stored, now, rem, otherVars, events>>

\* The listeners of tabs.onCreated, onActivated and onUpdated:
\* if (!state) return; await calculateTabStates(); renderUI().
TabEventRender ==
  /\ loaded
  /\ view' = RenderAll(view, state)
  /\ UNCHANGED <<tabVars, stored, loaded, state, now, click, rem, otherVars, events>>

\* --------------------------------------------------------- binding updates
\* A variant of BindingUpdate that loses the tab id.
BindingDropped(tabId, at) == Binding(NoTab, NoTime)

\* An update object that stamps the time whether or not a tab is given.
BindingStamped(tabId, at) == Binding(tabId, at)

\* The update object of updateFavoriteBinding / updateWorkspaceItemBinding:
\* { lastBoundTabId: tabId, lastBoundAt: tabId ? Date.now() : null }.
BindingUpdate(tabId, at) == Binding(tabId, IF tabId # NoTab THEN at ELSE NoTime)

\* Storage.updateFavorite / Storage.updateWorkspaceItem, second half: the
\* state read before, with the item's fields replaced, is written back whole.
StorageWrite(snap, i, b) == [snap EXCEPT ![i] = b]

\* What the rendered buttons hold after the update's re-render.
RenderAfterUpdate(v, s, i) ==
  IF i \in Favs THEN RenderFavorites(v, s) ELSE RenderWorkspaces(v, s)

\* ---------------------------------------------------------- click handlers
\* Variants of StartPc: one that never looks at the binding, one that looks
\* at the binding before it looks at the Shift key.
StartPcUnbound(mode, shift, bound) ==
  IF mode # "smart-switch" THEN "openUrl"
  ELSE IF shift THEN "forceCreate"
  ELSE "query"

StartPcBindingFirst(mode, shift, bound) ==
  IF mode # "smart-switch" THEN "openUrl"
  ELSE IF bound # NoTab THEN "get"
  ELSE IF shift THEN "forceCreate"
  ELSE "query"

\* handleClickFavorite / handleOpenWorkspaceItem up to the first await: which
\* branch the handler takes (`event` is set for every click on a button).
StartPc(mode, shift, bound) ==
  IF mode # "smart-switch" THEN "openUrl"
  ELSE IF shift THEN "forceCreate"
  ELSE IF bound # NoTab THEN "get"
  ELSE "query"

\* A lookup that also wants the tab to be on the item's site still.
TabsGetMatching(id) ==
  IF id \in open /\ matchesUrl(tabUrl[id], ItemUrl("f1")) THEN id ELSE NoTab

\* chrome.tabs.get(id).catch(() => null).
TabsGet(id) == IF id \in open THEN id ELSE NoTab

\* A variant of AfterGetPc that treats a missing bound tab as an error.
AfterGetPcAbort(t) == IF t # NoTab THEN "focusBound" ELSE "catch"

\* if (boundTab) { focus it } else { clear the binding }.
AfterGetPc(t) == IF t # NoTab THEN "focusBound" ELSE "updRead"

\* chrome.tabs.query({ currentWindow: true }).
QueryCurrentWindow == {t \in open : tabWin[t] = CurrentWindow}

\* A variant of MatchingTabs without the URL test.
UnfilteredTabs(i) == {t \in open : tabWin[t] = CurrentWindow}

\* The tabs that tabs.find(tab => matchesUrl(tab.url, item.url)) may return:
\* the first match in the order the browser lists the window's tabs.
MatchingTabs(i) == {t \in QueryCurrentWindow : matchesUrl(tabUrl[t], ItemUrl(i))}

\* Where a handler continues when its binding update has finished: after
\* clearing a stale binding it goes on to the fallback search, after binding
\* a tab it returns.
AfterUpdatePc(wtab) == IF wtab = NoTab THEN "query" ELSE "done"

Step(c, rec) == click' = Others([click EXCEPT ![c] = rec], c)

ClickStart(c, i, shift, mode) ==
  /\ loaded
  /\ ~InFlight(c)
  /\ \A d \in AllClicks : d < c => InFlight(d)
  /\ UserEvent
  /\ LET smart == mode = "smart-switch"
         bound == IF smart /\ ~shift THEN view[i].lastBoundTabId ELSE NoTab
     IN Step(c, [IdleClick EXCEPT
          !.pc = StartPc(mode, shift, view[i].lastBoundTabId),
          !.item = i, !.shift = shift, !.mode = mode, !.bound = bound,
          !.solo = (\A d \in AllClicks : d = c \/ ~InFlight(d))
                   /\ (\A t \in TabIds : ~RemRunning(t)),
          !.pre = stored[i],
          !.lost = \E t \in TabIds : rem[t].pc = "done" /\ i \in rem[t].was,
          !.readBinding = smart /\ ~shift])
  /\ UNCHANGED <<tabVars, panelVars, rem, otherVars>>

\* Shift+Click: const newTab = await chrome.tabs.create({ url: item.url });
\* then the binding update with newTab.id.
ClickForceCreate(c) ==
  /\ click[c].pc = "forceCreate"
  /\ CreateTab(ItemUrl(click[c].item), CurrentWindow)
  /\ now' = Tick
  /\ Step(c, [click[c] EXCEPT !.pc = "updRead", !.tab = nextId, !.wtab = nextId,
                              !.wat = now, !.made = @ + 1,
                              !.outcome = "created-forced"])
  /\ UNCHANGED <<stored, loaded, state, view, rem, otherVars, events>>

\* const boundTab = await chrome.tabs.get(item.lastBoundTabId).catch(() => null)
ClickGet(c) ==
  /\ click[c].pc = "get"
  /\ LET t == TabsGet(click[c].bound)
     IN Step(c, IF t # NoTab
                  THEN [click[c] EXCEPT !.pc = AfterGetPc(t), !.tab = t,
                                        !.win = tabWin[t], !.readTabs = TRUE]
                  ELSE [click[c] EXCEPT !.pc = AfterGetPc(t), !.tab = NoTab,
                                        !.wtab = NoTab, !.wat = NoTime,
                                        !.stale = TRUE, !.readTabs = TRUE])
  /\ UNCHANGED <<tabVars, panelVars, rem, otherVars, events>>

\* await chrome.tabs.update(boundTab.id, { active: true }); rejects when the
\* tab has gone, and the catch block takes over.
ClickFocusBound(c) ==
  /\ click[c].pc = "focusBound"
  /\ IF click[c].tab \in open
       THEN /\ ActivateTab(click[c].tab)
            /\ Step(c, [click[c] EXCEPT !.pc = "focusWin"])
       ELSE /\ UNCHANGED <<open, tabUrl, tabWin, active, nextId>>
            /\ Step(c, [click[c] EXCEPT !.pc = "catch", !.failed = TRUE])
  /\ UNCHANGED <<panelVars, rem, otherVars, events>>

\* await chrome.windows.update(boundTab.windowId, { focused: true }); return.
ClickFocusWindow(c) ==
  /\ click[c].pc = "focusWin"
  /\ IF WindowExists(click[c].win)
       THEN Step(c, [click[c] EXCEPT !.pc = "done", !.outcome = "focused-bound"])
       ELSE Step(c, [click[c] EXCEPT !.pc = "catch", !.failed = TRUE])
  /\ UNCHANGED <<open, tabUrl, tabWin, active, nextId, panelVars, rem, otherVars, events>>

\* const tabs = await chrome.tabs.query({ currentWindow: true });
\* const matchingTab = tabs.find(...).
ClickQuery(c) ==
  /\ click[c].pc = "query"
  /\ LET ms == MatchingTabs(click[c].item)
     IN IF ms = {}
          THEN Step(c, [click[c] EXCEPT !.pc = "create", !.tab = NoTab,
                                        !.searched = TRUE, !.readTabs = TRUE])
          ELSE \E m \in ms :
                 Step(c, [click[c] EXCEPT !.pc = "focusFound", !.tab = m,
                                          !.searched = TRUE, !.readTabs = TRUE])
  /\ UNCHANGED <<tabVars, panelVars, rem, otherVars, events>>

\* await chrome.tabs.update(matchingTab.id, { active: true }); then the
\* binding update with matchingTab.id.
ClickFocusFound(c) ==
  /\ click[c].pc = "focusFound"
  /\ IF click[c].tab \in open
       THEN /\ ActivateTab(click[c].tab)
            /\ now' = Tick
            /\ Step(c, [click[c] EXCEPT !.pc = "updRead", !.wtab = click[c].tab,
                                        !.wat = now, !.outcome = "focused-found"])
       ELSE /\ UNCHANGED <<open, tabUrl, tabWin, active, nextId, now>>
            /\ Step(c, [click[c] EXCEPT !.pc = "catch", !.failed = TRUE])
  /\ UNCHANGED <<stored, loaded, state, view, rem, otherVars, events>>

\* const newTab = await chrome.tabs.create({ url: item.url }); then the
\* binding update with newTab.id.
ClickCreate(c) ==
  /\ click[c].pc = "create"
  /\ CreateTab(ItemUrl(click[c].item), CurrentWindow)
  /\ now' = Tick
  /\ Step(c, [click[c] EXCEPT !.pc = "updRead", !.tab = nextId, !.wtab = nextId,
                              !.wat = now, !.made = @ + 1,
                              !.outcome = "created-new"])
  /\ UNCHANGED <<stored, loaded, state, view, rem, otherVars, events>>

\* catch (error) { openUrl(item.url, 'new-tab') }: chrome.tabs.create({ url }).
ClickCatch(c) ==
  /\ click[c].pc = "catch"
  /\ CreateTab(ItemUrl(click[c].item), CurrentWindow)
  /\ Step(c, [click[c] EXCEPT !.pc = "done", !.tab = nextId, !.made = @ + 1,
                              !.outcome = "created-fallback"])
  /\ UNCHANGED <<panelVars, rem, otherVars, events>>

\* openUrl(item.url, openMode) of the branch without smart switching.
\* 'new-tab': chrome.tabs.create({ url }).  Otherwise
\* chrome.tabs.query({ active: true, currentWindow: true }, callback).
ClickOpenUrl(c) ==
  /\ click[c].pc = "openUrl"
  /\ IF click[c].mode = "new-tab"
       THEN /\ CreateTab(ItemUrl(click[c].item), CurrentWindow)
            /\ Step(c, [click[c] EXCEPT !.pc = "done", !.tab = nextId,
                                        !.made = @ + 1, !.outcome = "opened-new"])
       ELSE /\ UNCHANGED <<open, tabUrl, tabWin, active, nextId>>
            /\ Step(c, [click[c] EXCEPT !.pc = "openSame", !.readTabs = TRUE,
                                        !.tab = active])
  /\ UNCHANGED <<panelVars, rem, otherVars, events>>

\* The callback: if (tabs[0]) chrome.tabs.update(tabs[0].id, { url })
\* else chrome.tabs.create({ url }).  The update of a tab that has gone sets
\* chrome.runtime.lastError, which nobody reads.
ClickOpenSame(c) ==
  /\ click[c].pc = "openSame"
  /\ LET a == click[c].tab
     IN IF a = NoTab
          THEN /\ CreateTab(ItemUrl(click[c].item), CurrentWindow)
               /\ Step(c, [click[c] EXCEPT !.pc = "done", !.tab = nextId,
                                           !.made = @ + 1, !.outcome = "opened-new"])
          ELSE IF a \in open
            THEN /\ tabUrl' = [tabUrl EXCEPT ![a] = ItemUrl(click[c].item)]
                 /\ UNCHANGED <<open, tabWin, active, nextId>>
                 /\ Step(c, [click[c] EXCEPT !.pc = "done", !.outcome = "navigated"])
            ELSE /\ UNCHANGED <<open, tabUrl, tabWin, active, nextId>>
                 /\ Step(c, [click[c] EXCEPT !.pc = "done", !.outcome = "nothing"])
  /\ UNCHANGED <<panelVars, rem, otherVars, events>>

\* Storage.updateFavorite / updateWorkspaceItem, first half: read the state.
ClickUpdRead(c) ==
  /\ click[c].pc = "updRead"
  /\ Step(c, [click[c] EXCEPT !.pc = "updWrite", !.snap = stored])
  /\ UNCHANGED <<tabVars, panelVars, rem, otherVars, events>>

\* ... second half: write it back with the item's binding replaced.
ClickUpdWrite(c) ==
  /\ click[c].pc = "updWrite"
  /\ stored' = StorageWrite(click[c].snap, click[c].item,
                            BindingUpdate(click[c].wtab, click[c].wat))
  /\ Step(c, [click[c] EXCEPT !.pc = "refresh", !.snap = AllUnbound,
                              !.cleared = @ \/ click[c].wtab = NoTab,
                              !.writes = @ + 1])
  /\ UNCHANGED <<tabVars, loaded, state, view, now, rem, otherVars, events>>

\* state = await Storage.getState(); renderFavorites() / renderWorkspaces().
ClickRefresh(c) ==
  /\ click[c].pc = "refresh"
  /\ state' = stored
  /\ view' = RenderAfterUpdate(view, stored, click[c].item)
  /\ Step(c, [click[c] EXCEPT !.pc = AfterUpdatePc(click[c].wtab)])
  /\ UNCHANGED <<tabVars, stored, loaded, now, rem, otherVars, events>>

\* The handler's promise has settled; the slot is free again.
ClickSettle(c) ==
  /\ click[c].pc = "done"
  /\ click' = [Others(click, c) EXCEPT ![c] = IdleClick]
  /\ UNCHANGED <<tabVars, panelVars, rem, otherVars, events>>

\* ------------------------------------------------- tabs.onRemoved listener
\* The first position from k on whose item the array arr shows bound to the
\* closed tab t: the test fav.lastBoundTabId === closedTabId of the loops.
BoundTo(b, t) == b.lastBoundTabId = t

NextBound(order, arr, t, k) ==
  LET js == {j \in k..Len(order) : BoundTo(arr[order[j]], t)}
  IN  IF js = {} THEN 0 ELSE CHOOSE j \in js : \A j2 \in js : j <= j2

\* The listener runs on until its next await: the rest of the loop over
\* state.favorites as it was when the loop began, then the loop over the
\* workspaces of `state` as it is when that loop begins (st), then the
\* indicator refresh.
RemContinue(r, t, st) ==
  LET jf == IF r.phase = "fav" THEN NextBound(FavOrder, r.arr, t, r.k + 1) ELSE 0
      wsArr == IF r.phase = "fav" THEN st ELSE r.arr
      jw == NextBound(WsOrder, wsArr, t, IF r.phase = "fav" THEN 1 ELSE r.k + 1)
  IN  IF jf # 0
        THEN [r EXCEPT !.pc = "updRead", !.k = jf, !.item = FavOrder[jf]]
      ELSE IF jw # 0
        THEN [r EXCEPT !.pc = "updRead", !.phase = "ws", !.arr = wsArr,
                       !.k = jw, !.item = WsOrder[jw]]
      ELSE [IdleRem EXCEPT !.pc = "recalc", !.was = r.was]

\* chrome.tabs.onRemoved.addListener(async (closedTabId) => { if (!state) return; ...
RemovedStart(t) ==
  /\ rem[t].pc = "pending"
  /\ rem' = [rem EXCEPT ![t] =
       IF ~loaded THEN [IdleRem EXCEPT !.pc = "done", !.skipped = TRUE,
                                       !.was = rem[t].was]
       ELSE RemContinue([rem[t] EXCEPT !.phase = "fav", !.arr = state, !.k = 0],
                        t, state)]
  /\ click' = Others(click, 0)
  /\ UNCHANGED <<tabVars, panelVars, otherVars, events>>

\* await updateFavoriteBinding(fav.id, null) / updateWorkspaceItemBinding(item.id, null)
RemUpdRead(t) ==
  /\ rem[t].pc = "updRead"
  /\ rem' = [rem EXCEPT ![t] = [@ EXCEPT !.pc = "updWrite", !.snap = stored]]
  /\ click' = Others(click, 0)
  /\ UNCHANGED <<tabVars, panelVars, otherVars, events>>

RemUpdWrite(t) ==
  /\ rem[t].pc = "updWrite"
  /\ stored' = StorageWrite(rem[t].snap, rem[t].item, BindingUpdate(NoTab, now))
  /\ rem' = [rem EXCEPT ![t] = [@ EXCEPT !.pc = "refresh", !.snap = AllUnbound]]
  /\ click' = Others(click, 0)
  /\ UNCHANGED <<tabVars, loaded, state, view, now, otherVars, events>>

RemRefresh(t) ==
  /\ rem[t].pc = "refresh"
  /\ state' = stored
  /\ view' = RenderAfterUpdate(view, stored, rem[t].item)
  /\ rem' = [rem EXCEPT ![t] = RemContinue(@, t, stored)]
  /\ click' = Others(click, 0)
  /\ UNCHANGED <<tabVars, stored, loaded, now, otherVars, events>>

\* await calculateTabStates(); renderUI(); the listener returns.
RemRecalc(t) ==
  /\ rem[t].pc = "recalc"
  /\ view' = RenderAll(view, state)
  /\ rem' = [rem EXCEPT ![t] = [IdleRem EXCEPT !.pc = "done", !.was = rem[t].was]]
  /\ click' = Others(click, 0)
  /\ UNCHANGED <<tabVars, stored, loaded, state, now, otherVars, events>>

\* ----------------------------------------------------------- specification
\* The steps of the panel's own code.
PanelSteps ==
  \/ InitPanel
  \/ TabEventRender
  \/ \E c \in Clicks, i \in Items, shift \in BOOLEAN, mode \in OpenModes :
       ClickStart(c, i, shift, mode)
  \/ \E c \in Clicks : ClickForceCreate(c)
  \/ \E c \in Clicks : ClickGet(c)
  \/ \E c \in Clicks : ClickFocusBound(c)
  \/ \E c \in Clicks : ClickFocusWindow(c)
  \/ \E c \in Clicks : ClickQuery(c)
  \/ \E c \in Clicks : ClickFocusFound(c)
  \/ \E c \in Clicks : ClickCreate(c)
  \/ \E c \in Clicks : ClickCatch(c)
  \/ \E c \in Clicks : ClickOpenUrl(c)
  \/ \E c \in Clicks : ClickOpenSame(c)
  \/ \E c \in Clicks : ClickUpdRead(c)
  \/ \E c \in Clicks : ClickUpdWrite(c)
  \/ \E c \in Clicks : ClickRefresh(c)
  \/ \E c \in Clicks : ClickSettle(c)
  \/ \E t \in TabIds : RemovedStart(t)
  \/ \E t \in TabIds : RemUpdRead(t)
  \/ \E t \in TabIds : RemUpdWrite(t)
  \/ \E t \in TabIds : RemRefresh(t)
  \/ \E t \in TabIds : RemRecalc(t)

Next ==
  \/ \E u \in UserUrls, w \in Windows : UserOpenTab(u, w)
  \/ \E t \in TabIds : UserCloseTab(t)
  \/ PanelSteps

Spec == Init /\ [][Next]_vars

\* --------------------------------------------- specification of matchesUrl
\* The state of Spec before the panel loads, with nothing going on.
Dormant ==
  /\ open = {1}
  /\ tabUrl = [t \in TabIds |-> Url("https", "b", "/")]
  /\ tabWin = [t \in TabIds |-> CurrentWindow]
  /\ active = 1
  /\ nextId = Cardinality(InitialTabs) + 1
  /\ events = 0
  /\ stored = AllUnbound
  /\ loaded = FALSE
  /\ state = AllUnbound
  /\ view = AllUnbound
  /\ now = 2
  /\ click = [c \in AllClicks |-> IdleClick]
  /\ rem = [t \in TabIds |-> IdleRem]
  /\ navigated = [t \in TabIds |-> FALSE]
  /\ BgIdle

InitUrl ==
  /\ Dormant
  /\ AuxIdle
  /\ mTab \in UrlStrings
  /\ mTarget \in UrlStrings
  /\ mResult = "none"

\* One call matchesUrl(mTab, mTarget).
MatchStep ==
  /\ mResult = "none"
  /\ LET r == matchesUrlCall(mTab, mTarget)
     IN mResult' = IF r.threw THEN "threw" ELSE IF r.value THEN "true" ELSE "false"
  /\ UNCHANGED <<tabVars, panelVars, click, rem, events, mTab, mTarget, navigated, bgVars, auxVars>>

SpecUrl == InitUrl /\ [][MatchStep]_vars

\* -------------------------------------------------------------- properties
\* A click handler that has returned after running alone: no other handler
\* ran and no tab was opened or closed by the user between its start and its
\* return.
DoneAlone(c) == click[c].pc = "done" /\ click[c].solo
\* ... of a click without Shift, with smart switching on.
PlainDone(c) ==
  DoneAlone(c) /\ click[c].mode = "smart-switch" /\ ~click[c].shift
\* ... of a click with Shift, with smart switching on.
ForcedDone(c) ==
  DoneAlone(c) /\ click[c].mode = "smart-switch" /\ click[c].shift

\* The tabs that were open when a click that ran alone began.
OpenBefore(c) == open \ (IF click[c].made > 0 THEN {click[c].tab} ELSE {})
\* Of those, the tabs of the item's domain.
DomainTabsBefore(c) ==
  {t \in OpenBefore(c) : matchesUrl(tabUrl[t], ItemUrl(click[c].item))}

\* The handler made a step.
OwnStep(c) == InFlight(c) /\ click'[c].pc # click[c].pc

\* C1: every stored lastBoundTabId is null or the id of an open tab.  A tab
\* that has closed is granted the time until its onRemoved listener returns:
\* after that no binding may name it.
C1_BindingsNameOpenTabs ==
  \A i \in Items :
    LET b == stored[i].lastBoundTabId
    IN  b = NoTab \/ b \in open \/ RemRunning(b)

\* C2: an item was bound to tab T, T closed and its onRemoved listener
\* returned; a later smart-switch click without Shift on the item, which finds
\* the item with no binding to an open tab and runs with nothing else in
\* between, focuses an open tab of the item's domain found by the search or
\* creates a tab, never a closed tab, and leaves the item bound to that open
\* tab.
C2_ClosedTabRecovery ==
  \A c \in AllClicks :
    (PlainDone(c) /\ click[c].lost /\ click[c].pre.lastBoundTabId \notin open)
      => /\ click[c].outcome \in {"focused-found", "created-new"}
         /\ click[c].tab \in open
         /\ rem[click[c].tab].pc = "none"
         /\ matchesUrl(tabUrl[click[c].tab], ItemUrl(click[c].item))
         /\ stored[click[c].item].lastBoundTabId = click[c].tab

C2_Witness ==
  \E c \in AllClicks :
    /\ PlainDone(c) /\ click[c].lost /\ click[c].pre.lastBoundTabId \notin open
    /\ click[c].outcome = "focused-found"

\* C3: a smart-switch click without Shift on an item bound to an open tab,
\* run with nothing else in between, focuses that tab, creates no tab, writes
\* no binding and leaves lastBoundTabId and lastBoundAt as they were; so any
\* number of such clicks in a row do.
C3_IdempotentRefocus ==
  \A c \in AllClicks :
    (PlainDone(c) /\ click[c].pre.lastBoundTabId \in open)
      => /\ click[c].outcome = "focused-bound"
         /\ click[c].tab = click[c].pre.lastBoundTabId
         /\ tabWin[click[c].tab] = CurrentWindow => active = click[c].tab
         /\ click[c].made = 0
         /\ click[c].writes = 0
         /\ stored[click[c].item] = click[c].pre

C3_Witness ==
  \E c \in AllClicks :
    /\ PlainDone(c) /\ click[c].pre.lastBoundTabId \in open
    /\ click[c].outcome = "focused-bound"

\* C4: with smart switching on, a Shift+Click reads neither the item's
\* binding nor the open tabs; under every interleaving it creates exactly one
\* tab and writes one binding, which names that tab and not the tab the item
\* was bound to before; when nothing else runs meanwhile, the tab is open at
\* the item's URL and the stored binding is its id.
C4_ForceNew ==
  \A c \in AllClicks :
    /\ (click[c].pc # "idle" /\ click[c].mode = "smart-switch" /\ click[c].shift)
         => ~click[c].readBinding /\ ~click[c].readTabs
    /\ (click[c].pc = "done" /\ click[c].mode = "smart-switch" /\ click[c].shift)
         => /\ click[c].outcome = "created-forced"
            /\ click[c].made = 1
            /\ click[c].writes = 1
            /\ click[c].wtab = click[c].tab
            /\ click[c].tab # click[c].pre.lastBoundTabId
    /\ ForcedDone(c)
         => /\ click[c].tab \in open
            /\ tabUrl[click[c].tab] = ItemUrl(click[c].item)
            /\ stored[click[c].item].lastBoundTabId = click[c].tab

C4_Witness ==
  \E c \in AllClicks :
    ForcedDone(c) /\ click[c].pre.lastBoundTabId # NoTab
                  /\ click[c].outcome = "created-forced"

\* C5: no step of a Shift+Click on an item bound to an open tab V closes V,
\* navigates V, moves V or activates V, whatever else runs meanwhile; and when
\* nothing else runs meanwhile, none changes the binding of another item.
C5_ForceLeavesBoundTab ==
  [][\A c \in AllClicks :
       (OwnStep(c) /\ click[c].mode = "smart-switch" /\ click[c].shift
          /\ click[c].pre.lastBoundTabId \in open)
         => LET v == click[c].pre.lastBoundTabId
            IN  /\ v \in open'
                /\ tabUrl'[v] = tabUrl[v]
                /\ tabWin'[v] = tabWin[v]
                /\ active' = v => active = v
                /\ click[c].solo =>
                     \A j \in Items \ {click[c].item} : stored'[j] = stored[j]]_vars

C5_Witness ==
  \E c \in AllClicks :
    /\ ForcedDone(c) /\ click[c].pre.lastBoundTabId \in open
    /\ stored[click[c].item].lastBoundTabId = click[c].tab
    /\ click[c].tab # click[c].pre.lastBoundTabId

\* C6: a smart-switch click without Shift on an item with no binding to an
\* open tab, run with nothing else in between, focuses an open tab of the
\* item's domain whenever there is one, in whichever window, binds the item
\* to it and creates no tab.
C6_FallbackSearchAnyWindow ==
  \A c \in AllClicks :
    (PlainDone(c) /\ click[c].pre.lastBoundTabId \notin open
       /\ DomainTabsBefore(c) # {})
      => /\ click[c].outcome = "focused-found"
         /\ click[c].made = 0
         /\ click[c].tab \in DomainTabsBefore(c)
         /\ stored[click[c].item].lastBoundTabId = click[c].tab

\* C7: a smart-switch click without Shift on an unbound item, when no open
\* tab has the item's hostname and nothing else runs in between, creates
\* exactly one tab, at the item's URL, and binds the item to it.
C7_CreateWhenNoMatch ==
  \A c \in AllClicks :
    (PlainDone(c) /\ click[c].pre.lastBoundTabId = NoTab
       /\ DomainTabsBefore(c) = {})
      => /\ click[c].outcome = "created-new"
         /\ click[c].made = 1
         /\ click[c].tab \in open
         /\ Cardinality(open) = Cardinality(OpenBefore(c)) + 1
         /\ tabUrl[click[c].tab] = ItemUrl(click[c].item)
         /\ stored[click[c].item].lastBoundTabId = click[c].tab

C7_Witness ==
  \E c \in AllClicks :
    /\ PlainDone(c) /\ click[c].pre.lastBoundTabId = NoTab
    /\ DomainTabsBefore(c) = {}
    /\ click[c].outcome = "created-new"

\* C8: matchesUrl returns true exactly when both arguments parse and their
\* lowercased hostnames are equal, and it never throws.
C8_MatchesLowercasedHostnames ==
  mResult # "none"
    => /\ mResult # "threw"
       /\ (mResult = "true")
            <=> /\ ParseUrl(mTab).ok /\ ParseUrl(mTarget).ok
                /\ ToLower(ParseUrl(mTab).hostname)
                     = ToLower(ParseUrl(mTarget).hostname)

\* C9: when the onRemoved listener of a closed tab returns, no favorite and no
\* workspace item has that tab as its lastBoundTabId.
C9_InvalidatedWhenListenerReturns ==
  [][\A t \in TabIds :
       (rem[t].pc # "done" /\ rem'[t].pc = "done")
         => \A i \in Items : stored'[i].lastBoundTabId # t]_vars

\* C10: a click without Shift whose tabs.get finds the bound tab gone writes
\* a null binding for the item, then runs the fallback search, then focuses
\* the tab found or creates one; the catch block is not entered before the
\* search has run, and the handler returns having focused or created a tab.
StaleClickOnCourse(c) ==
  /\ click[c].mode = "smart-switch" /\ ~click[c].shift
  /\ \/ /\ click[c].pc \in {"updRead", "updWrite"}
        /\ click[c].wtab = NoTab /\ ~click[c].cleared /\ ~click[c].searched
        /\ ~click[c].failed
     \/ /\ click[c].pc \in {"refresh", "query"}
        /\ click[c].wtab = NoTab /\ click[c].cleared /\ ~click[c].searched
        /\ ~click[c].failed
     \/ /\ click[c].pc \in {"focusFound", "create", "updRead", "updWrite",
                            "refresh", "catch"}
        /\ click[c].cleared /\ click[c].searched
     \/ /\ click[c].pc = "done"
        /\ click[c].cleared /\ click[c].searched
        /\ click[c].outcome \in {"focused-found", "created-new", "created-fallback"}
        /\ click[c].tab # NoTab

C10_StaleBindingIsCleared ==
  /\ [](\A c \in AllClicks : click[c].stale => StaleClickOnCourse(c))
  /\ [][\A c \in AllClicks :
          (click[c].stale /\ ~click[c].cleared /\ click'[c].cleared)
            => stored'[click[c].item] = Unbound]_vars

C10_Witness ==
  \E c \in AllClicks :
    click[c].stale /\ click[c].pc = "done" /\ click[c].outcome = "created-new"

\* C11: when a focus call of a switch fails, the failure is caught, a tab is
\* created at the item's URL, and when the handler returns the item is bound
\* to that tab.
C11_FailureFallbackBinds ==
  \A c \in AllClicks :
    (click[c].pc = "done" /\ click[c].failed)
      => /\ click[c].outcome = "created-fallback"
         /\ click[c].made >= 1
         /\ stored[click[c].item].lastBoundTabId = click[c].tab

\* ------------------------------------------- host calls that are rejected
\* The browser may reject a tab call although the tab exists (the tab strip
\* is being dragged, the window is closing, the URL is not allowed).  Spec
\* has the rejections that a closed tab or window causes; SpecHost adds these.

\* Shift+Click: await chrome.tabs.create(...) rejects.  The call is outside
\* the try block, so the handler's promise rejects with the host's error.
ClickForceCreateRejects(c) ==
  /\ click[c].pc = "forceCreate"
  /\ Step(c, [click[c] EXCEPT !.pc = "done", !.outcome = "threw"])
  /\ UNCHANGED <<tabVars, panelVars, rem, otherVars, events>>

\* await chrome.tabs.update(id, { active: true }) rejects, inside the try.
ClickFocusRejects(c) ==
  /\ click[c].pc \in {"focusBound", "focusFound"}
  /\ Step(c, [click[c] EXCEPT !.pc = "catch", !.failed = TRUE])
  /\ UNCHANGED <<tabVars, panelVars, rem, otherVars, events>>

\* await chrome.tabs.query({ currentWindow: true }) rejects, inside the try.
ClickQueryRejects(c) ==
  /\ click[c].pc = "query"
  /\ Step(c, [click[c] EXCEPT !.pc = "catch", !.failed = TRUE, !.readTabs = TRUE])
  /\ UNCHANGED <<tabVars, panelVars, rem, otherVars, events>>

\* await chrome.tabs.create(...) of the fallback rejects, inside the try.
ClickCreateRejects(c) ==
  /\ click[c].pc = "create"
  /\ Step(c, [click[c] EXCEPT !.pc = "catch", !.failed = TRUE])
  /\ UNCHANGED <<tabVars, panelVars, rem, otherVars, events>>

\* catch { openUrl(url, 'new-tab') }: chrome.tabs.create({ url }) rejects.
\* openUrl does not await it: the handler returns, nothing has been opened.
ClickCatchRejects(c) ==
  /\ click[c].pc = "catch"
  /\ Step(c, [click[c] EXCEPT !.pc = "done", !.outcome = "nothing"])
  /\ UNCHANGED <<tabVars, panelVars, rem, otherVars, events>>

HostRejects ==
  \/ \E c \in Clicks : ClickForceCreateRejects(c)
  \/ \E c \in Clicks : ClickFocusRejects(c)
  \/ \E c \in Clicks : ClickQueryRejects(c)
  \/ \E c \in Clicks : ClickCreateRejects(c)
  \/ \E c \in Clicks : ClickCatchRejects(c)

NextHost == Next \/ HostRejects

SpecHost == Init /\ [][NextHost]_vars

\* C12: every click on a favorite or workspace item, with or without Shift,
\* ends with a tab focused, created or loaded, and no error of a host tab call
\* leaves the click handler.
C12_ClickEndsWithATab ==
  \A c \in AllClicks :
    click[c].pc = "done"
      => click[c].outcome \in {"focused-bound", "focused-found", "created-forced",
                               "created-new", "created-fallback", "opened-new",
                               "navigated"}

\* ----------------------------------------------------------- navigation
\* The user loads URL u in tab t; the browser emits tabs.onUpdated(t, {url}),
\* whose listener does what TabEventRender does: if (!state) return;
\* await calculateTabStates(); renderUI().
\* The background's switcher.revalidateBindingsForTab(tabId, tab): the bindings
\* of a tab that navigated are left as they are.
revalidateBindingsForTab(s, t) == s

UserNavigate(t, u) ==
  /\ t \in open
  /\ u # tabUrl[t]
  /\ UserEvent
  /\ tabUrl' = [tabUrl EXCEPT ![t] = u]
  /\ navigated' = [navigated EXCEPT ![t] = TRUE]
  /\ stored' = revalidateBindingsForTab(stored, t)
  /\ click' = Others(click, 0)
  /\ UNCHANGED <<open, tabWin, active, nextId, loaded, state, view, now, rem, urlVars, bgVars, auxVars>>

\* The user navigates and closes tabs and clicks, and opens no tab by hand.
NextNav ==
  \/ \E t \in TabIds, u \in UserUrls : UserNavigate(t, u)
  \/ \E t \in TabIds : UserCloseTab(t)
  \/ PanelSteps

SpecNav == Init /\ [][NextNav]_vars

\* C13: a navigation of a bound tab, to any URL, changes no binding; and a
\* smart-switch click without Shift on an item whose bound tab is open and has
\* navigated, run with nothing else in between, focuses that same tab, creates
\* no tab and leaves the binding as it was, whatever domain the tab shows.
C13_NavigationKeepsBinding ==
  /\ [][(\E t \in TabIds : navigated'[t] /\ ~navigated[t]) => stored' = stored]_vars
  /\ [](\A c \in AllClicks :
         (PlainDone(c) /\ click[c].pre.lastBoundTabId \in open
            /\ navigated[click[c].pre.lastBoundTabId])
           => /\ click[c].outcome = "focused-bound"
              /\ click[c].tab = click[c].pre.lastBoundTabId
              /\ click[c].made = 0
              /\ stored[click[c].item] = click[c].pre)

\* The bound tab went to another domain before the click.
C13_Witness ==
  \E c \in AllClicks :
    /\ PlainDone(c) /\ click[c].pre.lastBoundTabId \in open
    /\ navigated[click[c].pre.lastBoundTabId]
    /\ ~matchesUrl(tabUrl[click[c].pre.lastBoundTabId], ItemUrl(click[c].item))
    /\ click[c].outcome = "focused-bound"

\* C14: a click whose bound tab closes between the handler's lookup of the
\* binding and its focus call treats the failed focus as a cache miss: the
\* fallback search runs and the click ends by focusing the tab found or by
\* creating one; once the click and the tab's removal listener have both
\* finished, the item is unbound or bound to an open tab.
C14_CloseRaceRecomputes ==
  \A c \in AllClicks :
    (click[c].pc = "done" /\ click[c].failed /\ click[c].bound # NoTab /\ ~click[c].stale)
      => /\ click[c].searched
         /\ click[c].outcome \in {"focused-found", "created-new"}
         /\ rem[click[c].bound].pc = "done"
              => stored[click[c].item].lastBoundTabId \in open \cup {NoTab}

\* A step of a tab-removed listener (its first step takes the waiting event up).
ListenerStep == \E t \in TabIds : rem[t].pc \notin {"none", "done"} /\ rem'[t] # rem[t]

\* A step of the handler of another click than c.
OtherClickStep(c) ==
  \E d \in AllClicks \ {c} : click'[d].pc # click[d].pc /\ click'[d].pc # "idle"

\* The handler has read the item's binding and its first binding write is
\* still to come: the tab to bind is about to be created, or the write is
\* under way.
BeforeItsWrite(c) ==
  /\ click[c].readBinding
  /\ click[c].writes = 0
  /\ click[c].pc \in {"create", "updRead", "updWrite"}

\* C15: between the step where a click's handler reads the item's binding and
\* the step where it writes the item's binding, no other handler makes a step:
\* no tab-removed listener and no other click.
C15_HandlersDoNotInterleave ==
  [][\A c \in AllClicks :
       BeforeItsWrite(c) => ~ListenerStep /\ ~OtherClickStep(c)]_vars

\* A second click without Shift while the handler of the first may still be
\* running: the click listener starts a new call of the handler for every click.
SecondClick(d) ==
  \/ \E i \in Items : ClickStart(d, i, FALSE, "smart-switch")
  \/ ClickGet(d)
  \/ ClickFocusBound(d)
  \/ ClickFocusWindow(d)
  \/ ClickQuery(d)
  \/ ClickFocusFound(d)
  \/ ClickCreate(d)
  \/ ClickCatch(d)
  \/ ClickUpdRead(d)
  \/ ClickUpdWrite(d)
  \/ ClickRefresh(d)
  \/ ClickSettle(d)

NextTwo == Next \/ \E d \in AllClicks \ Clicks : SecondClick(d)

SpecTwo == Init /\ [][NextTwo]_vars

\* No tab has been closed.
NoTabClosed == \A t \in TabIds : rem[t].pc = "none"

\* C16: plain clicks on one item, a second click before the first click's
\* handler has finished included, create at most one tab for the item as long
\* as no tab is closed.
C16_NoDuplicateTabs ==
  \A c, d \in AllClicks :
    (/\ c # d
     /\ NoTabClosed
     /\ click[c].item = click[d].item
     /\ click[c].mode = "smart-switch" /\ ~click[c].shift
     /\ click[d].mode = "smart-switch" /\ ~click[d].shift)
      => click[c].made + click[d].made <= 1

\* A binding's two fields are null together or set together.
PairConsistent(b) == (b.lastBoundTabId = NoTab) <=> (b.lastBoundAt = NoTime)

\* C17: in every reachable state, in storage, in the panel's copy of the state
\* and in the rendered buttons, an item's lastBoundAt is null exactly when its
\* lastBoundTabId is null: every write sets the two together.
C17_BindingPairConsistent ==
  \A i \in Items :
    PairConsistent(stored[i]) /\ PairConsistent(state[i]) /\ PairConsistent(view[i])

\* A click has bound its item to a tab with the time of the write, and a
\* tab-removed listener has cleared the binding of another item.
C17_Witness ==
  \E c \in AllClicks, t \in TabIds, j \in Items :
    /\ click[c].pc = "done" /\ click[c].writes >= 1
    /\ click[c].tab # NoTab
    /\ stored[click[c].item] = Binding(click[c].tab, click[c].wat)
    /\ click[c].wat # NoTime
    /\ j # click[c].item
    /\ rem[t].pc = "done" /\ ~rem[t].skipped /\ j \in rem[t].was
    /\ stored[j] = Unbound

\* ------------------------------------------------- background: Tab Cache
\* TabCache.add(tab): inserts the entry, overwriting one with the same id.
TabCacheAdd(cch, tab) == [cache |-> [cch EXCEPT ![tab.id] = tab], ok |-> TRUE]

\* The fields of tab that changeInfo names, laid over the entry the cache has.
TabCacheUpdateDiff(cch, tabId, changed, tab) ==
  [cache |-> [cch EXCEPT ![tabId] =
                IF @ = NotFound THEN tab
                ELSE [id |-> tabId,
                      url |-> IF "url" \in changed THEN tab.url ELSE @.url,
                      active |-> IF "active" \in changed THEN tab.active ELSE @.active]],
   ok |-> TRUE]

\* TabCache.update(tabId, changeInfo, tab): the full snapshot replaces the entry.
TabCacheUpdate(cch, tabId, changed, tab) ==
  [cache |-> [cch EXCEPT ![tabId] = tab], ok |-> TRUE]

\* TabCache.remove(tabId): deletes the entry; an absent id is no error.
TabCacheRemove(cch, tabId) == [cache |-> [cch EXCEPT ![tabId] = NotFound], ok |-> TRUE]

\* TabCache.get(tabId): the snapshot, or not found.
TabCacheGet(cch, tabId) == cch[tabId]

\* One Tab Cache call made by the background: r is what the call returns, g the
\* snapshot it was given for the id (NotFound for a remove).
CacheCall(r, id, g) ==
  /\ tabCache' = r.cache
  /\ cacheOk' = (cacheOk /\ r.ok)
  /\ lastGiven' = [lastGiven EXCEPT ![id] = g]
  /\ got' = NoGet

\* initializeServices up to its first await: tabCache = new TabCache(), and
\* the switcher is constructed.
InitializeServices ==
  /\ bgInit = "none"
  /\ bgInit' = "created"
  /\ tabCache' = TabCacheNew
  /\ UNCHANGED <<bgState, lastGiven, cacheOk, got, msg>>

\* state = result['state.v1'] || null, after await chrome.storage.sync.get.
BgLoadState(has) ==
  /\ bgInit = "created"
  /\ bgInit' = "loaded"
  /\ bgState' = has
  /\ UNCHANGED <<tabCache, lastGiven, cacheOk, got, msg>>

\* The tabs chrome.tabs.query({}) may answer with: each id absent or with a snapshot.
QueriedTabs == {q \in [CacheIds -> CacheTabs \cup {NotFound}] :
                  \A id \in CacheIds : q[id] # NotFound => q[id].id = id}

\* tabs.forEach(tab => tabCache.add(tab)), after await chrome.tabs.query({}).
BgPopulate(q) ==
  /\ bgInit = "loaded"
  /\ bgInit' = "populated"
  /\ tabCache' = [id \in CacheIds |->
                    IF q[id] # NotFound THEN TabCacheAdd(tabCache, q[id]).cache[id]
                    ELSE tabCache[id]]
  /\ cacheOk' = (cacheOk /\ \A id \in CacheIds : q[id] # NotFound => TabCacheAdd(tabCache, q[id]).ok)
  /\ lastGiven' = [id \in CacheIds |-> IF q[id] # NotFound THEN q[id] ELSE lastGiven[id]]
  /\ got' = NoGet
  /\ UNCHANGED <<bgState, msg>>

\* chrome.tabs.onCreated: if (tabCache) tabCache.add(tab).
BgOnCreated(tab) ==
  /\ bgInit # "none"
  /\ CacheCall(TabCacheAdd(tabCache, tab), tab.id, tab)
  /\ UNCHANGED <<bgInit, bgState, msg>>

\* chrome.tabs.onRemoved: if (tabCache) tabCache.remove(tabId).
BgOnRemoved(tabId) ==
  /\ bgInit # "none"
  /\ CacheCall(TabCacheRemove(tabCache, tabId), tabId, NotFound)
  /\ UNCHANGED <<bgInit, bgState, msg>>

\* chrome.tabs.onUpdated: tabCache.update(tabId, changeInfo, tab) in both branches.
BgOnUpdated(tabId, changed, tab) ==
  /\ bgInit # "none"
  /\ tab.id = tabId
  /\ CacheCall(TabCacheUpdate(tabCache, tabId, changed, tab), tabId, tab)
  /\ UNCHANGED <<bgInit, bgState, msg>>

\* A lookup by the switcher: tabCache.get(tabId).
BgCacheGet(tabId) ==
  /\ bgInit # "none"
  /\ got' = [id |-> tabId, result |-> TabCacheGet(tabCache, tabId)]
  /\ UNCHANGED <<bgInit, bgState, tabCache, lastGiven, cacheOk, msg>>

\* The background alone: the panel stays closed.
PanelRests == UNCHANGED <<tabVars, panelVars, click, rem, events, urlVars, navigated, auxVars>>

\* The panel closed, the background not started, no matchesUrl call.
CoreIdle == Dormant /\ mTab = Url("none", "a", "/") /\ mTarget = Url("none", "a", "/")
              /\ mResult = "none"
CoreRests == UNCHANGED <<tabVars, panelVars, click, rem, urlVars, navigated, bgVars>>

InitBg == CoreIdle /\ AuxIdle

\* Everything but Clear all is at rest, and stays so.
IdleBesideClear == CoreIdle /\ WorkerIdle /\ LateIdle
BesideClear == CoreRests /\ UNCHANGED <<workerVars, lateVars>>
\* Everything but the AI worker is at rest, and stays so.
IdleBesideWorker == CoreIdle /\ ClearIdle /\ LateIdle
BesideWorker == CoreRests /\ UNCHANGED <<clearVars, events, lateVars>>
\* Everything but tab grouping is at rest, and stays so.
IdleBesideGroup == CoreIdle /\ ClearIdle /\ WorkerIdle /\ HostIdle /\ EquivIdle /\ PortIdle /\ CoachIdle
BesideGroup == CoreRests /\ UNCHANGED <<clearVars, workerVars, events, hostVars, equivVars, portVars, coachVars>>

NextCache ==
  \/ InitializeServices /\ PanelRests
  \/ \E has \in BOOLEAN : BgLoadState(has) /\ PanelRests
  \/ \E q \in QueriedTabs : BgPopulate(q) /\ PanelRests
  \/ \E tab \in CacheTabs : BgOnCreated(tab) /\ PanelRests
  \/ \E id \in CacheIds : BgOnRemoved(id) /\ PanelRests
  \/ \E id \in CacheIds, changed \in SUBSET {"url", "active"}, tab \in CacheTabs :
       BgOnUpdated(id, changed, tab) /\ PanelRests
  \/ \E id \in CacheIds : BgCacheGet(id) /\ PanelRests

SpecCache == InitBg /\ [][NextCache]_vars

\* C18: once the cache exists, a lookup of any id gives the snapshot of the most
\* recent add or update call for the id, and not found for an id no call has
\* added or whose most recent call is remove; no call, a remove of an absent id
\* and an add of a present id included, has raised an error.
C18_TabCacheConsistent ==
  bgInit # "none"
    => /\ \A id \in CacheIds : TabCacheGet(tabCache, id) = lastGiven[id]
       /\ got # NoGet => got.result = lastGiven[got.id]
       /\ cacheOk

\* After the cache was populated, a lookup has been answered with the snapshot
\* of an active tab while the cache holds nothing for the other id.
C18_Witness ==
  \E id \in CacheIds, other \in CacheIds :
    /\ got.id = id /\ got.result # NotFound /\ got.result.active
    /\ got.result.url = Url("https", "a", "/x")
    /\ other # id /\ tabCache[other] = NotFound
    /\ bgInit = "populated"

\* The step is the binding write of click c's handler.
ClickWrites(c) == click[c].pc = "updWrite" /\ click'[c].pc = "refresh"

\* The step is a binding write of the listener that handles the removal of tab t.
ListenerWrites(t) == rem[t].pc = "updWrite" /\ rem'[t].pc = "refresh"

\* C19: a click on item i changes the binding of i only, and handling the
\* removal of tab T changes only the bindings of items bound to T: the two
\* fields of every other favorite and workspace item stay as they are.
C19_PerItemFrame ==
  [][/\ \A c \in AllClicks :
          ClickWrites(c) => \A j \in Items \ {click[c].item} : stored'[j] = stored[j]
     /\ \A t \in TabIds :
          ListenerWrites(t) =>
            \A j \in Items : stored[j].lastBoundTabId # t => stored'[j] = stored[j]]_vars

\* C26: two binding updates for different items that overlap in time both
\* persist: the write of an update for one item, whether a click's or a
\* removal listener's, leaves the stored binding of every other item as the
\* other updates have written it.
C26_OverlappingUpdatesPersist ==
  [][/\ \A c \in AllClicks :
          ClickWrites(c) => \A j \in Items \ {click[c].item} : stored'[j] = stored[j]
     /\ \A t \in TabIds :
          ListenerWrites(t) => \A j \in Items \ {rem[t].item} : stored'[j] = stored[j]]_vars

\* ------------------------------------- background: 'favorite:switch' requests
\* chrome.storage.onChanged: state = changes['state.v1'].newValue.
BgStorageChanged(has) ==
  /\ bgState' = has
  /\ UNCHANGED <<bgInit, tabCache, lastGiven, cacheOk, got, msg>>

\* A message { type: 'favorite:switch', ... } reaches the background.
MsgArrive(payload, known) ==
  /\ msg.pc \in {"none", "done"}
  /\ payload \/ ~known
  /\ msg' = [IdleMsg EXCEPT !.pc = "pending", !.payload = payload, !.known = known]
  /\ UNCHANGED <<bgInit, bgState, tabCache, lastGiven, cacheOk, got>>

\* sendResponse(...)
Respond(m, ok, why) ==
  [m EXCEPT !.pc = "done", !.responses = @ + 1, !.ok = ok, !.why = why]

\* The listener's synchronous part, up to `return true`.
MsgHandle ==
  /\ msg.pc = "pending"
  /\ msg' = IF bgInit = "none" \/ ~bgState
              THEN Respond(msg, FALSE, "uninitialised")
            ELSE IF ~msg.payload
              THEN [msg EXCEPT !.pc = "done", !.threw = TRUE, !.why = "threw"]
            ELSE IF ~msg.known
              THEN Respond(msg, FALSE, "unknown")
            ELSE [msg EXCEPT !.pc = "switching"]
  /\ UNCHANGED <<bgInit, bgState, tabCache, lastGiven, cacheOk, got>>

\* switcher.switch(favorite, modifiers || {}) resolves: .then(...) responds.
MsgSwitchResolves ==
  /\ msg.pc = "switching"
  /\ msg' = Respond(msg, TRUE, "resolved")
  /\ UNCHANGED <<bgInit, bgState, tabCache, lastGiven, cacheOk, got>>

\* ... or rejects: .catch(...) responds.
MsgSwitchRejects ==
  /\ msg.pc = "switching"
  /\ msg' = Respond(msg, FALSE, "rejected")
  /\ UNCHANGED <<bgInit, bgState, tabCache, lastGiven, cacheOk, got>>

NextMsg ==
  \/ InitializeServices /\ PanelRests
  \/ \E has \in BOOLEAN : BgLoadState(has) /\ PanelRests
  \/ \E q \in QueriedTabs : BgPopulate(q) /\ PanelRests
  \/ \E has \in BOOLEAN : BgStorageChanged(has) /\ PanelRests
  \/ \E payload, known \in BOOLEAN : MsgArrive(payload, known) /\ PanelRests
  \/ MsgHandle /\ PanelRests
  \/ MsgSwitchResolves /\ PanelRests
  \/ MsgSwitchRejects /\ PanelRests

SpecMsg == InitBg /\ [][NextMsg]_vars

\* C20: every 'favorite:switch' request gets exactly one response, { ok: true }
\* when switch resolved and { ok: false } when the switcher or the state is not
\* initialised, the favorite id is unknown or switch rejected; the listener
\* never throws and leaves no request unanswered.
C20_OneResponsePerRequest ==
  /\ msg.responses <= 1
  /\ msg.pc = "done"
       => /\ msg.responses = 1
          /\ ~msg.threw
          /\ msg.ok <=> msg.why = "resolved"

\* C21: a click with Shift opens a new tab and bypasses smart switching (no
\* binding is read, no open tab is focused or navigated), whatever the
\* open-behaviour preference is.
C21_ShiftAlwaysOpensNewTab ==
  \A c \in AllClicks :
    (click[c].pc = "done" /\ click[c].shift)
      => /\ click[c].made = 1
         /\ click[c].tab \in TabIds
         /\ click[c].outcome \in {"created-forced", "opened-new"}
         /\ ~click[c].readBinding

\* ------------------------------------------------------------- Clear all
\* Sample paths the patterns of isActiveVideoCall accept.
MeetCodePaths == {"/abc-defg-hij"}
ZoomCallPaths == {"/j/123", "/wc/123"}
TeamsJoinPaths == {"/l/meetup-join/1", "/l/meet/1"}
WebexCallPaths == {"/meet/x", "/join/x"}
DiscordChannelPaths == {"/channels/1"}
ZoomHosts == {"zoom.us", "us02web.zoom.us"}
WebexHosts == {"webex.com", "acme.webex.com"}

\* isActiveVideoCall(url), for a URL that parses.
isActiveVideoCall(u) ==
  IF u.host = "meet.google.com" THEN u.path \in MeetCodePaths
  ELSE IF u.host \in ZoomHosts THEN u.path \in ZoomCallPaths
  ELSE IF u.host = "teams.microsoft.com" THEN u.path \in TeamsJoinPaths
  ELSE IF u.host = "teams.live.com" THEN TRUE
  ELSE IF u.host \in WebexHosts THEN u.path \in WebexCallPaths
  ELSE IF u.host = "discord.com" THEN u.path \in DiscordChannelPaths
  ELSE FALSE

\* isProtectedTab(tab)
isProtectedTab(tab) ==
  IF tab.pinned \/ tab.active THEN TRUE
  ELSE IF tab.audible THEN TRUE
  ELSE IF isActiveVideoCall(tab.url) THEN TRUE
  ELSE FALSE

\* The tabs of the panel's window.
CurrentWindowTabs == {t \in ClearIds : ctab[t].open /\ ctab[t].win = CurrentWindow}

\* A browser with three tabs: every window with tabs has one active tab.
InitClear ==
  /\ IdleBesideClear
  /\ clr = IdleClear
  /\ ctab \in [ClearIds -> ClearTabs]
  /\ \A t \in ClearIds : ctab[t].open
  /\ ctab[1].win = CurrentWindow /\ ctab[2].win = CurrentWindow
  /\ ctab[1].url = PlainPage /\ ~ctab[1].pinned /\ ~ctab[1].audible
  /\ ~ctab[2].audible
  /\ ~ctab[3].pinned
  /\ Cardinality({t \in ClearIds : ctab[t].win = CurrentWindow /\ ctab[t].active}) = 1
  /\ ctab[3].win = OtherWindow => ctab[3].active

\* The user switches to tab t of the panel's window.
UserActivates(t) ==
  /\ ctab[t].open /\ ctab[t].win = CurrentWindow /\ ~ctab[t].active
  /\ UserEvent
  /\ ctab' = [u \in ClearIds |->
                IF u = t THEN [ctab[u] EXCEPT !.active = TRUE]
                ELSE IF ctab[u].win = CurrentWindow THEN [ctab[u] EXCEPT !.active = FALSE]
                ELSE ctab[u]]
  /\ UNCHANGED clr

\* Tab t starts to play audio.
AudioStarts(t) ==
  /\ ctab[t].open /\ ~ctab[t].audible
  /\ UserEvent
  /\ ctab' = [ctab EXCEPT ![t].audible = TRUE]
  /\ UNCHANGED clr

\* The user pins tab t.
UserPins(t) ==
  /\ ctab[t].open /\ ~ctab[t].pinned
  /\ UserEvent
  /\ ctab' = [ctab EXCEPT ![t].pinned = TRUE]
  /\ UNCHANGED clr

\* The Clear all button: handleClearAllTabs up to its first await.
ClearStart ==
  /\ clr.pc = "idle"
  /\ clr' = [clr EXCEPT !.pc = "query"]
  /\ UNCHANGED <<ctab, events>>

\* allTabs = await chrome.tabs.query({ currentWindow: true }); the filter; the
\* return when there is nothing to close.
ClearQuery ==
  /\ clr.pc = "query"
  /\ LET all == CurrentWindowTabs
         toClose == {t \in all : ~isProtectedTab(ctab[t])}
     IN clr' = [clr EXCEPT !.pc = IF toClose = {} THEN "done" ELSE "remove",
                           !.list = [t \in ClearIds |-> t \in all],
                           !.toClose = toClose]
  /\ UNCHANGED <<ctab, events>>

\* await chrome.tabs.remove(tabIds).  What follows (ungrouping, the refresh of
\* the open-tabs list) closes no tab.
ClearRemove ==
  /\ clr.pc = "remove"
  /\ ctab' = [t \in ClearIds |->
                IF t \in clr.toClose THEN [ctab[t] EXCEPT !.open = FALSE] ELSE ctab[t]]
  /\ clr' = [clr EXCEPT !.pc = "done", !.closed = clr.toClose,
                        !.wrong = {t \in clr.toClose : isProtectedTab(ctab[t])}]
  /\ UNCHANGED events

NextClear ==
  \/ \E t \in ClearIds : UserActivates(t) /\ BesideClear
  \/ \E t \in ClearIds : AudioStarts(t) /\ BesideClear
  \/ \E t \in ClearIds : UserPins(t) /\ BesideClear
  \/ ClearStart /\ BesideClear
  \/ ClearQuery /\ BesideClear
  \/ ClearRemove /\ BesideClear

SpecClear == InitClear /\ [][NextClear]_vars

\* C22: Clear all never closes a protected tab: when the handler has finished,
\* it has closed tabs of the panel's window only, none of them pinned, active,
\* audible or in a video call when it was closed, and nothing when every tab
\* was protected.
C22_ClearAllSparesProtectedTabs ==
  clr.pc = "done"
    => /\ clr.wrong = {}
       /\ \A t \in clr.closed : clr.list[t]

\* --------------------------------------------------------------- AI worker
\* A limiter that lets one request more through before it refuses.
checkRateLimitLate(map, ip, t) ==
  LET record == map[ip]
  IN IF record = NoRecord \/ t - record.timestamp > RATE_WINDOW
       THEN [map |-> [map EXCEPT ![ip] = [count |-> 1, timestamp |-> t]], ok |-> TRUE]
     ELSE IF record.count > RATE_LIMIT
       THEN [map |-> map, ok |-> FALSE]
     ELSE [map |-> [map EXCEPT ![ip].count = @ + 1], ok |-> TRUE]

\* checkRateLimit(ip) at Date.now() = t: the map afterwards and the answer.
checkRateLimit(map, ip, t) ==
  LET record == map[ip]
  IN IF record = NoRecord \/ t - record.timestamp > RATE_WINDOW
       THEN [map |-> [map EXCEPT ![ip] = [count |-> 1, timestamp |-> t]], ok |-> TRUE]
     ELSE IF record.count >= RATE_LIMIT
       THEN [map |-> map, ok |-> FALSE]
     ELSE [map |-> [map EXCEPT ![ip].count = @ + 1], ok |-> TRUE]

\* cleanupRateLimitMap() on every hundredth request: expired records go.
cleanupRateLimitMap(map, t, hundredth) ==
  IF hundredth
    THEN [ip \in ClientIps |->
            IF map[ip] # NoRecord /\ t - map[ip].timestamp > RATE_WINDOW
              THEN NoRecord ELSE map[ip]]
    ELSE map

\* Origin headers: text before the marker of an extension origin, and the marker.
Origins == {[before |-> "", marker |-> "chrome-extension://"],
            [before |-> "", marker |-> "moz-extension://"],
            [before |-> "https://site.example/?", marker |-> "chrome-extension://"],
            [before |-> "https://site.example", marker |-> ""],
            [before |-> "", marker |-> ""]}
\* origin.includes('chrome-extension://') || origin.includes('moz-extension://');
\* a missing header counts as '*'.
OriginAccepted(o) == o.marker \in {"chrome-extension://", "moz-extension://"}
\* The header names an extension origin: it begins with the scheme.
NamesExtension(o) == OriginAccepted(o) /\ o.before = ""

\* The sum of f over the set S of instants.
RECURSIVE SumOver(_, _)
SumOver(f, S) ==
  IF S = {} THEN 0
  ELSE LET x == CHOOSE y \in S : TRUE IN f[x] + SumOver(f, S \ {x})

\* Time passes.
WorkerClock(t) ==
  /\ t \in Instants /\ t > wnow
  /\ wnow' = t
  /\ UNCHANGED <<rateLimitMap, admitted, starts, resp>>

\* fetch(request, env): one request, from the method check to the response.
WorkerFetch(method, o, ip, hundredth, body) ==
  LET early == IF method = "OPTIONS" THEN 204
               ELSE IF method # "POST" THEN 405
               ELSE IF ~OriginAccepted(o) THEN 403
               ELSE 0
      swept == cleanupRateLimitMap(rateLimitMap, wnow, hundredth)
      r == checkRateLimit(swept, ip, wnow)
      opened == r.ok /\ r.map[ip].timestamp = wnow /\ r.map[ip].count = 1
      last == IF starts[ip] = {} THEN 0
              ELSE CHOOSE a \in starts[ip] : \A b \in starts[ip] : b <= a
      full == /\ starts[ip] # {}
              /\ wnow - last <= RATE_WINDOW
              /\ SumOver(admitted[ip], {b \in Instants : b >= last}) >= RATE_LIMIT
      base == [IdleResponse EXCEPT !.method = method, !.extension = NamesExtension(o)]
  IN IF early # 0
       THEN /\ resp' = [base EXCEPT !.status = early]
            /\ UNCHANGED <<rateLimitMap, wnow, admitted, starts>>
       ELSE /\ rateLimitMap' = r.map
            /\ admitted' = IF r.ok THEN [admitted EXCEPT ![ip][wnow] = @ + 1] ELSE admitted
            /\ starts' = IF opened THEN [starts EXCEPT ![ip] = @ \cup {wnow}] ELSE starts
            /\ resp' = [base EXCEPT !.counted = TRUE, !.full = full,
                                    !.status = IF ~r.ok THEN 429
                                               ELSE IF body = "invalid" THEN 400 ELSE 200,
                                    !.forwarded = r.ok /\ body = "valid"]
            /\ UNCHANGED wnow

\* A minute of the worker's life: each client sent one request at instant 0 or
\* none, and the clock has moved on.
InitWorker ==
  /\ IdleBesideWorker
  /\ wnow = 59999
  /\ resp = IdleResponse
  /\ \E early \in SUBSET ClientIps :
       /\ rateLimitMap = [ip \in ClientIps |->
                            IF ip \in early THEN [count |-> 1, timestamp |-> 0] ELSE NoRecord]
       /\ admitted = [ip \in ClientIps |->
                        [t \in Instants |-> IF ip \in early /\ t = 0 THEN 1 ELSE 0]]
       /\ starts = [ip \in ClientIps |-> IF ip \in early THEN {0} ELSE {}]

\* Requests of the extension, from either client, as time passes.
NextWorker ==
  \/ \E t \in Instants : WorkerClock(t) /\ BesideWorker
  \/ \E ip \in ClientIps, hundredth \in BOOLEAN :
       WorkerFetch("POST", [before |-> "", marker |-> "chrome-extension://"],
                   ip, hundredth, "valid") /\ BesideWorker

SpecWorker == InitWorker /\ [][NextWorker]_vars

NextGate ==
  \E method \in {"OPTIONS", "GET", "POST"}, o \in Origins, ip \in ClientIps,
     hundredth \in BOOLEAN, body \in {"valid", "invalid"} :
    WorkerFetch(method, o, ip, hundredth, body) /\ BesideWorker

InitGate == IdleBesideWorker /\ WorkerIdle

SpecGate == InitGate /\ [][NextGate]_vars

\* C24: a request is forwarded to the AI service only if it is a POST whose
\* Origin names an extension origin and the rate limiter let it through;
\* OPTIONS is answered 204, any other method but POST 405, a POST without
\* such an Origin 403, and the rate limiter counts none of those.
C24_OnlyExtensionPostsForwarded ==
  /\ resp.method = "OPTIONS" => resp.status = 204
  /\ resp.method = "GET" => resp.status = 405
  /\ (resp.method = "POST" /\ ~resp.extension) => resp.status = 403
  /\ resp.counted => (resp.method = "POST" /\ resp.extension)
  /\ resp.forwarded
       => (resp.method = "POST" /\ resp.extension /\ resp.counted /\ ~resp.full)

\* ------------------------------------------------------------ tab grouping
\* groupTabsByDomain of the tab-grouping module. A tab is its position in
\* the list and its URL.

\* The names every JavaScript object inherits from Object.prototype; of the
\* lower-case ones, which a hostname can spell.
ObjectPrototypeKeys == {"constructor", "__proto__"}

\* appNames of getGroupingKey.
appNames ==
  [a \in {"document", "spreadsheets", "presentation", "forms"} |->
     CASE a = "document" -> "Google Docs"
       [] a = "spreadsheets" -> "Google Sheets"
       [] a = "presentation" -> "Google Slides"
       [] OTHER -> "Google Forms"]

\* getGroupingKey(url): the hostname, or the application's name for a
\* document of docs.google.com. (The URL of a tab always parses.)
getGroupingKey(u) ==
  IF u.host = "docs.google.com" /\ u.app # ""
    THEN IF u.app \in DOMAIN appNames THEN appNames[u.app] ELSE u.host
    ELSE u.host

\* The filter of groupTabsByDomain: the tab has a URL, which starts with
\* neither chrome:// nor edge://.
ValidTab(tab) == tab.url.scheme # "" /\ tab.url.scheme \notin {"chrome", "edge"}

\* One round of validTabs.forEach: `domainGroups` is the groups in the order
\* of their creation. Reading domainGroups[groupKey] of the object literal
\* finds an inherited property when the key spells one: the value is truthy,
\* so no group is created, and it has no `tabs`, so push raises a TypeError
\* that the catch swallows: the tab is skipped.
AddToGroups(dg, tab) ==
  LET groupKey == getGroupingKey(tab.url)
      at == {i \in 1..Len(dg) : dg[i].domain = groupKey}
  IN  IF at # {}
        THEN LET i == CHOOSE j \in at : TRUE
             IN  [dg EXCEPT ![i].tabs = Append(@, tab)]
        ELSE IF groupKey \in ObjectPrototypeKeys
          THEN dg
          ELSE Append(dg, [domain |-> groupKey, tabs |-> <<tab>>, collapsed |-> FALSE])

RECURSIVE DomainGroups(_)
DomainGroups(validTabs) ==
  IF validTabs = <<>> THEN <<>>
  ELSE AddToGroups(DomainGroups(SubSeq(validTabs, 1, Len(validTabs) - 1)),
                   validTabs[Len(validTabs)])

\* singles.push(...group.tabs) for the groups of one tab, in their order.
RECURSIVE Singles(_)
Singles(dg) ==
  IF dg = <<>> THEN <<>>
  ELSE LET rest == Singles(SubSeq(dg, 1, Len(dg) - 1))
           g == dg[Len(dg)]
       IN  IF Len(g.tabs) >= 2 THEN rest ELSE rest \o g.tabs

\* groups.sort((a, b) => b.tabs.length - a.tabs.length): a stable sort, the
\* larger group first.
RECURSIVE SortByCount(_)
SortByCount(groups) ==
  IF groups = <<>> THEN <<>>
  ELSE LET rest == SortByCount(SubSeq(groups, 1, Len(groups) - 1))
           g == groups[Len(groups)]
           before == {i \in 0..Len(rest) :
                        \A j \in 1..i : Len(rest[j].tabs) >= Len(g.tabs)}
           k == CHOOSE i \in before : \A j \in before : j <= i
       IN  SubSeq(rest, 1, k) \o <<g>> \o SubSeq(rest, k + 1, Len(rest))

groupTabsByDomain(tabs) ==
  LET validTabs == SelectSeq(tabs, ValidTab)
      dg == DomainGroups(validTabs)
      IsGroup(g) == Len(g.tabs) >= 2
      sorted == SortByCount(SelectSeq(dg, IsGroup))
  IN  [groups |-> [i \in 1..Len(sorted) |->
                     IF i > 1 THEN [sorted[i] EXCEPT !.collapsed = TRUE]
                     ELSE sorted[i]],
       singles |-> Singles(dg)]

\* The tabs of the window, as chrome.tabs.query gives them.
GroupingInput == [i \in 1..Len(gtabs) |-> [id |-> i, url |-> gtabs[i]]]

GroupTabs ==
  /\ ~grouped.done
  /\ LET r == groupTabsByDomain(GroupingInput)
     IN  grouped' = [done |-> TRUE, groups |-> r.groups, singles |-> r.singles]
  /\ UNCHANGED gtabs

InitGroup ==
  /\ IdleBesideGroup
  /\ grouped = NoGrouping
  /\ \E n \in 0..MaxGrouped : gtabs \in [1..n -> GroupUrls]

NextGroup == GroupTabs /\ BesideGroup
SpecGroup == InitGroup /\ [][NextGroup]_vars

\* How often tab i is shown in the result.
RECURSIVE TimesIn(_, _)
TimesIn(i, tabsSeq) ==
  IF tabsSeq = <<>> THEN 0
  ELSE (IF tabsSeq[Len(tabsSeq)].id = i THEN 1 ELSE 0)
       + TimesIn(i, SubSeq(tabsSeq, 1, Len(tabsSeq) - 1))
RECURSIVE TimesInGroups(_, _)
TimesInGroups(i, groups) ==
  IF groups = <<>> THEN 0
  ELSE TimesIn(i, groups[Len(groups)].tabs)
       + TimesInGroups(i, SubSeq(groups, 1, Len(groups) - 1))

\* C25: groupTabsByDomain partitions the tabs that have a URL starting with
\* neither chrome:// nor edge://. Each such tab is shown exactly once (and no
\* other tab at all): in a group of two or more tabs that all have the
\* group's key, or among the singles, where no other such tab has its key.
\* The groups come largest first, and every group but the first is collapsed.
C25_GroupingPartitions ==
  grouped.done =>
    LET covered == {i \in 1..Len(gtabs) : ValidTab(GroupingInput[i])}
        key(i) == getGroupingKey(gtabs[i])
        groups == grouped.groups
    IN  /\ \A i \in 1..Len(gtabs) :
             TimesInGroups(i, groups) + TimesIn(i, grouped.singles)
               = (IF i \in covered THEN 1 ELSE 0)
        /\ \A k \in 1..Len(groups) :
             /\ Len(groups[k].tabs) >= 2
             /\ \A j \in 1..Len(groups[k].tabs) :
                  key(groups[k].tabs[j].id) = groups[k].domain
             /\ k > 1 => /\ groups[k].collapsed
                         /\ Len(groups[k - 1].tabs) >= Len(groups[k].tabs)
        /\ \A j \in 1..Len(grouped.singles) :
             \A i \in covered :
               key(i) = key(grouped.singles[j].id) => i = grouped.singles[j].id

\* ------------------------------------------ background start and tab events
\* initializeServices beside the host's tabs: tabs open and close while the
\* function awaits, every change emits an event that the background's tab
\* listeners handle later, in the order of emission.
HostTab(id) == [id |-> id, url |-> Url("https", "b", "/"), active |-> FALSE]

\* All but the background and the host's tabs is at rest, and stays so.
IdleBesideHost == Dormant /\ mTab = Url("none", "a", "/") /\ mTarget = Url("none", "a", "/")
                    /\ mResult = "none" /\ ClearIdle /\ WorkerIdle /\ GroupIdle /\ EquivIdle /\ PortIdle /\ CoachIdle
BesideHost == UNCHANGED <<tabVars, panelVars, click, rem, events, urlVars, navigated,
                          clearVars, workerVars, groupVars, equivVars, portVars, coachVars>>

\* The host opens a tab: chrome.tabs.onCreated is emitted.
HostOpens(id) ==
  /\ id \notin hused
  /\ hopen' = hopen \cup {id}
  /\ hused' = hused \cup {id}
  /\ hq' = Append(hq, [kind |-> "created", id |-> id])
  /\ UNCHANGED <<hsnap, bgVars>>

\* The host closes a tab: chrome.tabs.onRemoved is emitted.
HostCloses(id) ==
  /\ id \in hopen
  /\ hopen' = hopen \ {id}
  /\ hq' = Append(hq, [kind |-> "removed", id |-> id])
  /\ UNCHANGED <<hused, hsnap, bgVars>>

\* The listener of the oldest event runs; without a cache it does nothing.
HostEventHandled ==
  /\ hq # <<>>
  /\ hq' = Tail(hq)
  /\ LET e == Head(hq)
     IN  IF bgInit = "none" THEN UNCHANGED bgVars
         ELSE IF e.kind = "created" THEN BgOnCreated(HostTab(e.id))
         ELSE BgOnRemoved(e.id)
  /\ UNCHANGED <<hopen, hused, hsnap>>

\* chrome.tabs.query({}) is called: the host answers with the tabs open now.
StartQuery ==
  /\ bgInit = "loaded"
  /\ ~hsnap.asked
  /\ hsnap' = [asked |-> TRUE, ids |-> hopen]
  /\ UNCHANGED <<hopen, hused, hq, bgVars>>

\* The answer arrives and tabs.forEach(tab => tabCache.add(tab)) runs. The
\* host promises no order between the answer to a call and the tab events:
\* the listeners of events emitted after the answer was made may have run.
StartPopulate ==
  /\ hsnap.asked
  /\ BgPopulate([id \in CacheIds |-> IF id \in hsnap.ids THEN HostTab(id) ELSE NotFound])
  /\ hsnap' = NoSnap
  /\ UNCHANGED <<hopen, hused, hq>>

InitStart ==
  /\ IdleBesideHost
  /\ BgIdle
  /\ hopen \in SUBSET CacheIds
  /\ hused = hopen
  /\ hq = <<>>
  /\ hsnap = NoSnap

NextStart ==
  \/ \E id \in CacheIds : HostOpens(id) /\ BesideHost
  \/ \E id \in CacheIds : HostCloses(id) /\ BesideHost
  \/ HostEventHandled /\ BesideHost
  \/ InitializeServices /\ UNCHANGED hostVars /\ BesideHost
  \/ \E has \in BOOLEAN : BgLoadState(has) /\ UNCHANGED hostVars /\ BesideHost
  \/ StartQuery /\ BesideHost
  \/ StartPopulate /\ BesideHost

SpecStart == InitStart /\ [][NextStart]_vars

\* The ids the Tab Cache holds.
CachedIds == {id \in CacheIds : TabCacheGet(tabCache, id) # NotFound}

\* C27: once initializeServices has finished and every emitted tab event has
\* been handled, the Tab Cache holds exactly the ids of the tabs that are open,
\* whatever tabs were created or removed while the function was awaiting.
C27_CacheMatchesOpenTabsAfterStart ==
  (bgInit = "populated" /\ hq = <<>>) => CachedIds = hopen

\* ----------------------------------- the two click handlers, side by side
\* handleClickFavorite and handleOpenWorkspaceItem, each run alone from the
\* click to its return on the tabs as they are: no tab goes away under the
\* handler, so no call to the browser fails and the catch block stays unused.
\* `bound` is item.lastBoundTabId, `tabs` the answer of
\* chrome.tabs.query({ currentWindow: true }) in the browser's order. The
\* result names the tab focused, loaded or created and the item's
\* lastBoundTabId once the binding updates are done.
Result(t, c, b) == [tab |-> t, created |-> c, lastBoundTabId |-> b]

\* openUrl(url, mode): a new tab, or the URL loaded in the active tab.
openUrl(mode, bound) ==
  IF mode = "new-tab" \/ active = NoTab
    THEN Result(nextId, TRUE, bound)
    ELSE Result(active, FALSE, bound)

\* tabs.find(tab => tab.url && matchesUrl(tab.url, item.url)).
RECURSIVE FindMatching(_, _)
FindMatching(tabs, i) ==
  IF tabs = <<>> THEN NoTab
  ELSE IF matchesUrl(tabUrl[Head(tabs)], ItemUrl(i)) THEN Head(tabs)
  ELSE FindMatching(Tail(tabs), i)

handleClickFavorite(fav, bound, shift, mode, tabs) ==
  IF mode = "smart-switch"
    THEN IF shift
      THEN Result(nextId, TRUE, nextId)
      ELSE LET boundTab == IF bound # NoTab THEN TabsGet(bound) ELSE NoTab
               matchingTab == FindMatching(tabs, fav)
           IN  IF boundTab # NoTab THEN Result(boundTab, FALSE, bound)
               ELSE IF matchingTab # NoTab THEN Result(matchingTab, FALSE, matchingTab)
               ELSE Result(nextId, TRUE, nextId)
    ELSE openUrl(mode, bound)

\* A variant of handleOpenWorkspaceItem that focuses the bound tab only while
\* it still shows the item's site.
handleOpenWorkspaceItemOnSite(item, bound, shift, mode, tabs) ==
  IF mode = "smart-switch"
    THEN IF shift
      THEN Result(nextId, TRUE, nextId)
      ELSE LET boundTab == IF bound # NoTab THEN TabsGetMatching(bound) ELSE NoTab
               matchingTab == FindMatching(tabs, item)
           IN  IF boundTab # NoTab THEN Result(boundTab, FALSE, bound)
               ELSE IF matchingTab # NoTab THEN Result(matchingTab, FALSE, matchingTab)
               ELSE Result(nextId, TRUE, nextId)
    ELSE openUrl(mode, bound)

handleOpenWorkspaceItem(item, bound, shift, mode, tabs) ==
  IF mode = "smart-switch"
    THEN IF shift
      THEN Result(nextId, TRUE, nextId)
      ELSE LET boundTab == IF bound # NoTab THEN TabsGet(bound) ELSE NoTab
               matchingTab == FindMatching(tabs, item)
           IN  IF boundTab # NoTab THEN Result(boundTab, FALSE, bound)
               ELSE IF matchingTab # NoTab THEN Result(matchingTab, FALSE, matchingTab)
               ELSE Result(nextId, TRUE, nextId)
    ELSE openUrl(mode, bound)

\* The orders in which the browser may list the tabs of S.
Orderings(S) == {s \in [1..Cardinality(S) -> S] : \A a, b \in DOMAIN s : s[a] = s[b] => a = b}

\* A favorite and a workspace item with one URL and one binding are clicked
\* with the same modifier on the same tabs.
RunBoth(bound, shift, mode, tabs) ==
  /\ eqv' = [done |-> TRUE, shift |-> shift, mode |-> mode, bound |-> bound,
             fav |-> handleClickFavorite("f1", bound, shift, mode, tabs),
             ws |-> handleOpenWorkspaceItem("w1", bound, shift, mode, tabs)]
  /\ UNCHANGED <<tabVars, panelVars, click, rem, events, urlVars, navigated, bgVars,
                 clearVars, workerVars, groupVars, hostVars, portVars, coachVars>>

\* One or two tabs, and nothing else going on.
InitEquiv ==
  /\ open \in {{1}, InitialTabs}
  /\ tabUrl \in [TabIds -> UserUrls \cup {ItemUrl("f1")}]
  /\ \A t \in TabIds \ open : tabUrl[t] = Url("https", "b", "/")
  /\ tabWin \in [TabIds -> Windows]
  /\ \A t \in (TabIds \ open) \cup {1} : tabWin[t] = CurrentWindow
  /\ active \in {NoTab, 1}
  /\ nextId = Cardinality(InitialTabs) + 1
  /\ events = 0
  /\ stored = AllUnbound /\ loaded = FALSE /\ state = AllUnbound /\ view = AllUnbound
  /\ now = 2
  /\ click = [c \in AllClicks |-> IdleClick]
  /\ rem = [t \in TabIds |-> IdleRem]
  /\ navigated = [t \in TabIds |-> FALSE]
  /\ BgIdle
  /\ mTab = Url("none", "a", "/") /\ mTarget = Url("none", "a", "/") /\ mResult = "none"
  /\ ClearIdle /\ WorkerIdle /\ GroupIdle /\ HostIdle /\ EquivIdle /\ PortIdle /\ CoachIdle

NextEquiv ==
  \E bound \in {NoTab} \cup InitialTabs, shift \in BOOLEAN,
     mode \in {"smart-switch", "new-tab", "same-tab"},
     tabs \in Orderings(QueryCurrentWindow) :
    RunBoth(bound, shift, mode, tabs)

SpecEquiv == InitEquiv /\ [][NextEquiv]_vars

IdleBesidePort == CoreIdle /\ ClearIdle /\ WorkerIdle /\ GroupIdle /\ HostIdle /\ EquivIdle /\ CoachIdle
BesidePort == CoreRests /\ UNCHANGED <<clearVars, workerVars, events, groupVars,
                                        hostVars, equivVars, coachVars>>

\* A side panel loads in window w: chrome.runtime.connect({ name: 'sidepanel' }),
\* and the background's onConnect listener runs: sidePanelPort = port.
PanelConnects(w) ==
  /\ w \notin ports
  /\ ports' = ports \cup {w}
  /\ sidePanelPort' = w
  /\ UNCHANGED <<closing, toolbar>>

\* The side panel of window w goes away (closed by the user, or window.close()
\* after a close-panel message): the port's onDisconnect listener runs,
\* sidePanelPort = null.
PanelDisconnects(w) ==
  /\ w \in ports
  /\ ports' = ports \ {w}
  /\ closing' = closing \ {w}
  /\ sidePanelPort' = NoPort
  /\ UNCHANGED toolbar

\* chrome.action.onClicked in window w: close-panel to sidePanelPort if it is
\* set, chrome.sidePanel.open({ windowId }) otherwise (the panel it opens
\* connects later).
ActionClicked(w) ==
  /\ IF sidePanelPort # NoPort
       THEN /\ closing' = closing \cup {sidePanelPort}
            /\ toolbar' = [win |-> w, did |-> "close-panel", wasOpen |-> ports # {}]
       ELSE /\ closing' = closing
            /\ toolbar' = [win |-> w, did |-> "open", wasOpen |-> ports # {}]
  /\ UNCHANGED <<ports, sidePanelPort>>

InitPort == IdleBesidePort /\ PortIdle

NextPort ==
  \/ \E w \in PanelWindows : PanelConnects(w) /\ BesidePort
  \/ \E w \in PanelWindows : PanelDisconnects(w) /\ BesidePort
  \/ \E w \in PanelWindows : ActionClicked(w) /\ BesidePort

SpecPort == InitPort /\ [][NextPort]_vars

\* C29: after any sequence of panel connects and disconnects, sidePanelPort is
\* set exactly when at least one side panel's port is connected, so the last
\* click on the toolbar action sent close-panel if a panel was open and opened
\* the panel otherwise.
C29_PortSetIffPanelConnected ==
  /\ (sidePanelPort # NoPort) <=> (ports # {})
  /\ toolbar.did = "close-panel" => toolbar.wasOpen
  /\ toolbar.did = "open" => ~toolbar.wasOpen

\* ------------------------------------------------- post-onboarding coach
\* startPostOnboardingCoach, its step screens and the coach's event hooks.
\* Every running flow, and every event handler, works on its own coachState
\* object, read from storage when it began, and saves the whole object.
COACH_STEPS ==
  [INTRO |-> 0, ADD_FAVORITE |-> 1, WORKSPACE_INTRO |-> 2, WORKSPACE_TOGGLE |-> 3,
   CLEANUP_WORKSPACES |-> 4, SMART_SWITCH_1 |-> 5, SMART_SWITCH_2 |-> 6,
   SMART_SWITCH_3 |-> 7, DUPLICATE_TAB |-> 8, CHAOS_VIEW |-> 9, MAGIC_MOMENT |-> 10,
   GROUPING_TRY |-> 11, HIDE_TAB_BAR |-> 12, IMMERSIVE_HINT |-> 13, COMPLETE |-> 14]

\* renderCurrentStep: the step the screen's forward button hands to goToStep.
NextSteps ==
  (COACH_STEPS.INTRO :> COACH_STEPS.ADD_FAVORITE)
    @@ (COACH_STEPS.ADD_FAVORITE :> COACH_STEPS.WORKSPACE_INTRO)
    @@ (COACH_STEPS.WORKSPACE_INTRO :> COACH_STEPS.WORKSPACE_TOGGLE)
    @@ (COACH_STEPS.WORKSPACE_TOGGLE :> COACH_STEPS.CLEANUP_WORKSPACES)
    @@ (COACH_STEPS.CLEANUP_WORKSPACES :> COACH_STEPS.SMART_SWITCH_1)
    @@ (COACH_STEPS.CHAOS_VIEW :> COACH_STEPS.MAGIC_MOMENT)
    @@ (COACH_STEPS.MAGIC_MOMENT :> COACH_STEPS.GROUPING_TRY)
    @@ (COACH_STEPS.GROUPING_TRY :> COACH_STEPS.HIDE_TAB_BAR)
    @@ (COACH_STEPS.HIDE_TAB_BAR :> COACH_STEPS.IMMERSIVE_HINT)
    @@ (COACH_STEPS.IMMERSIVE_HINT :> COACH_STEPS.COMPLETE)

\* ... the step the screen's skip button hands to goToStep ...
SkipSteps ==
  (COACH_STEPS.ADD_FAVORITE :> COACH_STEPS.WORKSPACE_INTRO)
    @@ (COACH_STEPS.WORKSPACE_INTRO :> COACH_STEPS.CLEANUP_WORKSPACES)
    @@ (COACH_STEPS.CLEANUP_WORKSPACES :> COACH_STEPS.SMART_SWITCH_1)
    @@ (COACH_STEPS.IMMERSIVE_HINT :> COACH_STEPS.COMPLETE)

\* ... and the steps whose skip button calls skip().
SkipEnds ==
  {COACH_STEPS.INTRO, COACH_STEPS.SMART_SWITCH_1, COACH_STEPS.SMART_SWITCH_2,
   COACH_STEPS.SMART_SWITCH_3, COACH_STEPS.DUPLICATE_TAB, COACH_STEPS.CHAOS_VIEW,
   COACH_STEPS.MAGIC_MOMENT, COACH_STEPS.GROUPING_TRY, COACH_STEPS.HIDE_TAB_BAR}

\* shouldShowCoach.
shouldShowCoach(st) == ~st.completed /\ ~st.skipped

\* startPostOnboardingCoach in panel p with the stored state st: nothing when
\* the coach is completed or skipped, else a new overlay in place of the
\* panel's old one, and the first screen.
StartedFlow(f, p, st) ==
  IF shouldShowCoach(st)
    THEN [f EXCEPT ![p] = [on |-> TRUE, screen |-> "step", st |-> st]]
    ELSE f

\* setTimeout(() => startPostOnboardingCoach(), ...) comes due in panel p.
CoachTimerFires(p) ==
  /\ timer[p]
  /\ timer' = [timer EXCEPT ![p] = FALSE]
  /\ flow' = StartedFlow(flow, p, coach)
  /\ UNCHANGED <<coach, cev>>

\* goToStep(step) of the flow in panel p: coachState.currentStep = step,
\* setCoachState(coachState), renderCurrentStep().
goToStep(p, step) ==
  LET st == [flow[p].st EXCEPT !.currentStep = step]
  IN  /\ coach' = st
      /\ flow' = [flow EXCEPT ![p].st = st]
      /\ UNCHANGED <<timer, cev>>

\* The forward button of the screen shown in panel p.
CoachNext(p) ==
  /\ flow[p].on /\ flow[p].screen = "step"
  /\ flow[p].st.currentStep \in DOMAIN NextSteps
  /\ goToStep(p, NextSteps[flow[p].st.currentStep])

\* The skip button of a screen that skips to a later step.
CoachSkipTo(p) ==
  /\ flow[p].on /\ flow[p].screen = "step"
  /\ flow[p].st.currentStep \in DOMAIN SkipSteps
  /\ goToStep(p, SkipSteps[flow[p].st.currentStep])

\* skip(): coachState.skipped = true, setCoachState(coachState), dismissCoach.
CoachSkip(p) ==
  /\ flow[p].on /\ flow[p].screen = "step"
  /\ flow[p].st.currentStep \in SkipEnds
  /\ coach' = [flow[p].st EXCEPT !.skipped = TRUE]
  /\ flow' = [flow EXCEPT ![p] = NoFlow]
  /\ UNCHANGED <<timer, cev>>

\* complete(), from the button of the last screen.
CoachComplete(p) ==
  /\ flow[p].on /\ flow[p].screen = "step"
  /\ flow[p].st.currentStep = COACH_STEPS.COMPLETE
  /\ coach' = [flow[p].st EXCEPT !.completed = TRUE]
  /\ flow' = [flow EXCEPT ![p] = NoFlow]
  /\ UNCHANGED <<timer, cev>>

\* Continue on the success screen of the third smart-switch click: the
\* handler's coachState goes to DUPLICATE_TAB, is saved, and the flow restarts.
CoachContinue(p) ==
  /\ flow[p].on /\ flow[p].screen = "success"
  /\ LET st == [flow[p].st EXCEPT !.currentStep = COACH_STEPS.DUPLICATE_TAB]
     IN  /\ coach' = st
         /\ flow' = StartedFlow(flow, p, st)
  /\ UNCHANGED <<timer, cev>>

\* onFavoriteClicked / onDuplicateCreated in panel p, up to the answer of
\* await getCoachState().
CoachEventReads(p, kind) ==
  /\ cev.pc = "idle"
  /\ cev' = [pc |-> "read", panel |-> p, kind |-> kind, st |-> coach]
  /\ UNCHANGED <<coach, flow, timer>>

\* The handler's own step: coachState.currentStep = ..., saved, and the flow
\* restarted by a timer.
Advance(p, st, step) ==
  /\ coach' = [st EXCEPT !.currentStep = step]
  /\ timer' = [timer EXCEPT ![p] = TRUE]
  /\ UNCHANGED flow

\* ... and the rest of the handler.
CoachEventActs ==
  /\ cev.pc = "read"
  /\ cev' = NoCoachEvent
  /\ LET st == cev.st
         p == cev.panel
         step == st.currentStep
     IN  IF st.completed \/ st.skipped THEN UNCHANGED <<coach, flow, timer>>
         ELSE IF cev.kind = "favorite" /\ step = COACH_STEPS.SMART_SWITCH_1
           THEN Advance(p, st, COACH_STEPS.SMART_SWITCH_2)
         ELSE IF cev.kind = "favorite" /\ step = COACH_STEPS.SMART_SWITCH_2
           THEN Advance(p, st, COACH_STEPS.SMART_SWITCH_3)
         ELSE IF cev.kind = "favorite" /\ step = COACH_STEPS.SMART_SWITCH_3 /\ flow[p].on
           THEN /\ flow' = [flow EXCEPT ![p] = [on |-> TRUE, screen |-> "success", st |-> st]]
                /\ UNCHANGED <<coach, timer>>
         ELSE IF cev.kind = "duplicate" /\ step = COACH_STEPS.DUPLICATE_TAB
           THEN Advance(p, st, COACH_STEPS.CHAOS_VIEW)
         ELSE UNCHANGED <<coach, flow, timer>>

\* All but the coach is at rest, and stays so.
IdleBesideCoach == CoreIdle /\ ClearIdle /\ WorkerIdle /\ GroupIdle /\ HostIdle
                     /\ EquivIdle /\ PortIdle
BesideCoach == CoreRests /\ UNCHANGED <<clearVars, workerVars, events, groupVars,
                                         hostVars, equivVars, portVars>>

\* Onboarding has just ended in panel 1, and maybe in panel 2 as well: the
\* coach's start is on its timer.
InitCoach ==
  /\ IdleBesideCoach
  /\ coach = FreshCoach
  /\ flow = [p \in CoachPanels |-> NoFlow]
  /\ timer \in [CoachPanels -> BOOLEAN] /\ timer[1]
  /\ cev = NoCoachEvent

NextCoach ==
  \/ \E p \in CoachPanels : CoachTimerFires(p) /\ BesideCoach
  \/ \E p \in CoachPanels : CoachNext(p) /\ BesideCoach
  \/ \E p \in CoachPanels : CoachSkipTo(p) /\ BesideCoach
  \/ \E p \in CoachPanels : CoachSkip(p) /\ BesideCoach
  \/ \E p \in CoachPanels : CoachComplete(p) /\ BesideCoach
  \/ \E p \in CoachPanels : CoachContinue(p) /\ BesideCoach
  \/ \E p \in CoachPanels, kind \in {"favorite", "duplicate"} :
       CoachEventReads(p, kind) /\ BesideCoach
  \/ CoachEventActs /\ BesideCoach

SpecCoach == InitCoach /\ [][NextCoach]_vars

\* The step is the doing of a coach event: a handler's write, or the restart
\* of the flow that a handler has put on a timer.
CoachEventStep ==
  \/ cev.pc = "read" /\ cev'.pc = "idle"
  \/ \E p \in CoachPanels : timer[p] /\ ~timer'[p]

\* C30: the stored currentStep never decreases, and once the stored state is
\* completed or skipped no coach event changes currentStep or restarts the flow.
C30_CoachStepOnlyAdvances ==
  [][/\ coach'.currentStep >= coach.currentStep
     /\ (CoachEventStep /\ (coach.completed \/ coach.skipped))
          => /\ coach'.currentStep = coach.currentStep
             /\ \A p \in CoachPanels : flow'[p].on => flow[p].on]_vars

====
